---------------------------- MODULE Spec2Model ----------------------------
(***************************************************************************)
(* Model of the TriageSense backend's orchestration core:                  *)
(*   - the Gemini call chain, response contract and diagnosis pipeline     *)
(*     (backend/services/scraperService.js, second half: llmService),      *)
(*   - the wait-time resolver (backend/services/waittimeService.js and     *)
(*     backend/services/scraperService.js, first half: scraperService).    *)
(*                                                                         *)
(* Conventions.  A JavaScript string is a sequence of UTF-16 code units    *)
(* (natural numbers), so that trim, toLowerCase, includes, character-class *)
(* tests and charCodeAt are computed as the code computes them.  A         *)
(* JavaScript number is kept as twice its value (field n), which makes the *)
(* halves representable and Number.isInteger decidable; NaN is a type of   *)
(* its own.  A model response text is a sequence of lexical tokens.        *)
(***************************************************************************)
EXTENDS Integers, Sequences, FiniteSets, TLC

(***************************************************************************)
(* Strings                                                                 *)
(***************************************************************************)
\* the code units String.prototype.trim and \s treat as white space
IsSpace(c) == c \in {9, 10, 11, 12, 13, 32, 160}

RECURSIVE TrimLeft(_)
TrimLeft(s) ==
    IF s = <<>> THEN <<>>
    ELSE IF IsSpace(Head(s)) THEN TrimLeft(Tail(s)) ELSE s

RECURSIVE TrimRight(_)
TrimRight(s) ==
    IF s = <<>> THEN <<>>
    ELSE IF IsSpace(s[Len(s)]) THEN TrimRight(SubSeq(s, 1, Len(s) - 1)) ELSE s

\* String.prototype.trim
Trim(s) == TrimRight(TrimLeft(s))

\* String.prototype.toLowerCase on the code units the model uses (A-Z)
LowerChar(c) == IF c >= 65 /\ c <= 90 THEN c + 32 ELSE c

ToLowerCase(s) == [i \in 1..Len(s) |-> LowerChar(s[i])]

\* String.prototype.includes
Includes(s, sub) ==
    \E i \in 0..(Len(s) - Len(sub)) : SubSeq(s, i + 1, i + Len(sub)) = sub

(***************************************************************************)
(* JavaScript values.  Scalars are records [t, s, n]; t is the typeof-like *)
(* tag, s the string content, n twice the numeric value (or 0/1 for a      *)
(* boolean).                                                               *)
(***************************************************************************)
JStr(s) == [t |-> "string", s |-> s, n |-> 0]

JNum(twice) == [t |-> "number", s |-> <<>>, n |-> twice]

JNaN == [t |-> "nan", s |-> <<>>, n |-> 0]

JBool(b) == [t |-> "boolean", s |-> <<>>, n |-> IF b THEN 1 ELSE 0]

JNull == [t |-> "null", s |-> <<>>, n |-> 0]

JUndef == [t |-> "undefined", s |-> <<>>, n |-> 0]

\* a nested object or array used as a field value: opaque
JNested == [t |-> "object", s |-> <<>>, n |-> 0]

\* an object is a function from its own keys to scalars; obj.key
Field(obj, key) == IF key \in DOMAIN obj THEN obj[key] ELSE JUndef

NoFields == [k \in {} |-> JUndef]

\* top-level values handed back by JSON.parse: an object, an array or a scalar
PObj(fields) == [t |-> "object", v |-> JUndef, f |-> fields]

PArr == [t |-> "array", v |-> JUndef, f |-> NoFields]

PScalar(v) == [t |-> "scalar", v |-> v, f |-> NoFields]

\* a decimal digit string as a number, parseInt(s, 10) of an all-digit string
RECURSIVE DigitsValue(_)
DigitsValue(s) ==
    IF s = <<>> THEN 0
    ELSE 10 * DigitsValue(SubSeq(s, 1, Len(s) - 1)) + (s[Len(s)] - 48)

IsDigits(s) == s # <<>> /\ \A i \in 1..Len(s) : s[i] >= 48 /\ s[i] <= 57

\* Number(x) as validateAndNormalize applies it to obj.severity
ToNumber(x) ==
    CASE x.t = "number" -> x
      [] x.t = "nan" -> JNaN
      [] x.t = "boolean" -> JNum(2 * x.n)
      [] x.t = "null" -> JNum(0)
      [] x.t = "string" ->
            IF Trim(x.s) = <<>> THEN JNum(0)
            ELSE IF IsDigits(Trim(x.s)) THEN JNum(2 * DigitsValue(Trim(x.s)))
            ELSE JNaN
      [] OTHER -> JNaN

\* Number.isInteger
IsInteger(x) == x.t = "number" /\ x.n % 2 = 0


(***************************************************************************)
(* Supported languages (ttsService.js) and script detection                *)
(***************************************************************************)
L_en == <<101, 110>>
L_es == <<101, 115>>
L_hi == <<104, 105>>
L_ar == <<97, 114>>
L_zh == <<122, 104>>
L_ja == <<106, 97>>
L_ko == <<107, 111>>
L_ru == <<114, 117>>
L_te == <<116, 101>>

\* 'en','es','fr','de','it','pt','pl','hi','ar','zh','ja','ko','nl','ru','sv',
\* 'tr','uk','vi','id','fil','ta','te','cs','da','fi','el','hu','no','ro','sk'
SUPPORTED_LANGUAGES ==
    << L_en, L_es, <<102, 114>>, <<100, 101>>, <<105, 116>>, <<112, 116>>,
       <<112, 108>>, L_hi, L_ar, L_zh, L_ja, L_ko, <<110, 108>>, L_ru, <<115, 118>>,
       <<116, 114>>, <<117, 107>>, <<118, 105>>, <<105, 100>>,
       <<102, 105, 108>>, <<116, 97>>, L_te, <<99, 115>>, <<100, 97>>,
       <<102, 105>>, <<101, 108>>, <<104, 117>>, <<110, 111>>, <<114, 111>>,
       <<115, 107>> >>

\* SUPPORTED_LANGUAGES.includes(code)
IsSupported(code) == \E i \in 1..Len(SUPPORTED_LANGUAGES) : SUPPORTED_LANGUAGES[i] = code

DEFAULT_LANGUAGE_CODE == L_en

\* Array.prototype.join(' ') of an array of strings
RECURSIVE JoinSpace(_)
JoinSpace(items) ==
    IF items = <<>> THEN <<>>
    ELSE IF Len(items) = 1 THEN items[1]
    ELSE items[1] \o <<32>> \o JoinSpace(Tail(items))

\* /[\uLO-\uUP]/.test(text), the range given by its code units
HasCharIn(text, lo, up) == \E i \in 1..Len(text) : text[i] >= lo /\ text[i] <= up

detectLanguageFromSymptoms(symptoms) ==
    LET text == JoinSpace(symptoms) IN
    IF HasCharIn(text, 1536, 1791) THEN L_ar
    ELSE IF HasCharIn(text, 1024, 1279) THEN L_ru
    ELSE IF HasCharIn(text, 19968, 40959) THEN L_zh
    ELSE IF HasCharIn(text, 12352, 12543) THEN L_ja
    ELSE IF HasCharIn(text, 44032, 55215) THEN L_ko
    ELSE IF HasCharIn(text, 2304, 2431) THEN L_hi
    ELSE IF HasCharIn(text, 3072, 3199) THEN L_te
    ELSE DEFAULT_LANGUAGE_CODE

(***************************************************************************)
(* Errors.  status is the backend's err.status (0: absent), statusCode and *)
(* publicMessage are the fields the service sets (0 / "": absent).         *)
(***************************************************************************)
Err(message, status, statusCode, publicMessage) ==
    [message |-> message, status |-> status, statusCode |-> statusCode,
     publicMessage |-> publicMessage]

NoError == Err(<<>>, 0, 0, "null")

\* 'not found'
STR_NOT_FOUND == <<110, 111, 116, 32, 102, 111, 117, 110, 100>>
\* 'is not supported'
STR_NOT_SUPPORTED ==
    <<105, 115, 32, 110, 111, 116, 32, 115, 117, 112, 112, 111, 114, 116, 101, 100>>
\* 'image'
STR_IMAGE == <<105, 109, 97, 103, 101>>
\* 'Gemini call failed: '
STR_CALL_FAILED ==
    <<71, 101, 109, 105, 110, 105, 32, 99, 97, 108, 108, 32, 102, 97, 105, 108,
      101, 100, 58, 32>>

\* variant: every error counts as a model that was not found
isModelNotFoundError_AnyError(err) == TRUE

\* 'provided image is not valid' and 'unable to process input image'
STR_IMAGE_NOT_VALID == <<112, 114, 111, 118, 105, 100, 101, 100, 32, 105, 109, 97, 103, 101, 32, 105, 115, 32, 110, 111, 116, 32, 118, 97, 108, 105, 100>>
STR_UNABLE_IMAGE == <<117, 110, 97, 98, 108, 101, 32, 116, 111, 32, 112, 114, 111, 99, 101, 115, 115, 32, 105, 110, 112, 117, 116, 32, 105, 109, 97, 103, 101>>

isInvalidImageError(err) ==
    LET message == ToLowerCase(err.message) IN
    /\ err.status = 400
    /\ \/ Includes(message, STR_IMAGE_NOT_VALID)
       \/ Includes(message, STR_UNABLE_IMAGE)

isModelNotFoundError(err) ==
    LET message == ToLowerCase(err.message) IN
    \/ err.status = 404
    \/ Includes(message, STR_NOT_FOUND)
    \/ Includes(message, STR_NOT_SUPPORTED)

normalizeGeminiError(err) ==
    LET statusCode == IF err.status # 0 THEN err.status ELSE 503
        lower == ToLowerCase(err.message)
    IN Err(STR_CALL_FAILED \o err.message,
           0,
           IF statusCode >= 400 THEN statusCode ELSE 503,
           IF statusCode = 400
             THEN IF Includes(lower, STR_IMAGE)
                    THEN "Uploaded image could not be processed. Try a clear JPG or PNG image."
                    ELSE "Invalid input for diagnosis request"
             ELSE "Diagnosis service temporarily unavailable")

\* the error getModel throws when GEMINI_API_KEY is missing:
\* 'GEMINI_API_KEY is required. Set it in .env'
ConfigError ==
    Err(<<71, 69, 77, 73, 78, 73, 95, 65, 80, 73, 95, 75, 69, 89, 32, 105, 115,
          32, 114, 101, 113, 117, 105, 114, 101, 100, 46, 32, 83, 101, 116, 32,
          105, 116, 32, 105, 110, 32, 46, 101, 110, 118>>,
        0, 500, "LLM is not configured on the server")

\* errors the generative backend can answer an attempt with
E_404 == Err(<<78, 111, 116, 32, 70, 111, 117, 110, 100>>, 404, 0, "")   \* 'Not Found'
E_NotSupported ==                                                         \* 'Model is not supported'
    Err(<<77, 111, 100, 101, 108, 32, 105, 115, 32, 110, 111, 116, 32, 115,
          117, 112, 112, 111, 114, 116, 101, 100>>, 400, 0, "")
E_BadImage ==                                                             \* 'Provided image is not valid'
    Err(<<80, 114, 111, 118, 105, 100, 101, 100, 32, 105, 109, 97, 103, 101,
          32, 105, 115, 32, 110, 111, 116, 32, 118, 97, 108, 105, 100>>, 400, 0, "")
E_BadRequest ==                                                           \* 'Bad request'
    Err(<<66, 97, 100, 32, 114, 101, 113, 117, 101, 115, 116>>, 400, 0, "")
E_Overloaded ==                                                           \* 'Overloaded'
    Err(<<79, 118, 101, 114, 108, 111, 97, 100, 101, 100>>, 503, 0, "")
E_Network ==                                                              \* 'fetch failed' (no status)
    Err(<<102, 101, 116, 99, 104, 32, 102, 97, 105, 108, 101, 100>>, 0, 0, "")

\* 'models/gemini-2.5-flash-image is overloaded': the backend names the model
\* it could not serve
E_ImageModelOverloaded ==
    Err(<<109, 111, 100, 101, 108, 115, 47, 103, 101, 109, 105, 110, 105, 45, 50, 46, 53, 45, 102, 108, 97, 115, 104, 45, 105, 109, 97, 103, 101, 32, 105, 115, 32, 111, 118, 101, 114, 108, 111, 97, 100, 101, 100>>,
        503, 0, "")

BackendErrors == {E_404, E_NotSupported, E_BadImage, E_BadRequest, E_Overloaded, E_Network}

(***************************************************************************)
(* Response texts and JSON.  A text is a sequence of tokens [k, v]: the    *)
(* punctuation "{" "}" ":" ",", a literal ("lit": a string, number,        *)
(* boolean or null, v its value), a nested value ("nested": an inner       *)
(* object or array, opaque), a word of prose or a code-fence marker        *)
(* ("word") and white space ("ws").  Prose words and literals hold no      *)
(* brace: a brace in prose is a token of its own.                          *)
(***************************************************************************)
Tok(k) == [k |-> k, v |-> JUndef]

TLit(v) == [k |-> "lit", v |-> v]

TNested == [k |-> "nested", v |-> JNested]

TWord == Tok("word")

TWs == Tok("ws")

\* the property names of the payloads
K_condition == <<99, 111, 110, 100, 105, 116, 105, 111, 110>>
K_severity == <<115, 101, 118, 101, 114, 105, 116, 121>>
K_reasoning == <<114, 101, 97, 115, 111, 110, 105, 110, 103>>
K_languageCode == <<108, 97, 110, 103, 117, 97, 103, 101, 67, 111, 100, 101>>

Ok(value) == [ok |-> TRUE, value |-> value, err |-> NoError]

Throw(err) == [ok |-> FALSE, value |-> PScalar(JUndef), err |-> err]

\* the members between the braces of an object: "key": value (, "key": value)*
\* a repeated key keeps its last value
RECURSIVE ParseMembers(_)
ParseMembers(toks) ==
    IF Len(toks) < 3 THEN [ok |-> FALSE, f |-> NoFields]
    ELSE IF ~ (/\ toks[1].k = "lit" /\ toks[1].v.t = "string"
               /\ toks[2].k = ":"
               /\ toks[3].k \in {"lit", "nested"})
      THEN [ok |-> FALSE, f |-> NoFields]
    ELSE IF Len(toks) = 3 THEN [ok |-> TRUE, f |-> (toks[1].v.s :> toks[3].v)]
    ELSE IF toks[4].k # "," THEN [ok |-> FALSE, f |-> NoFields]
    ELSE LET rest == ParseMembers(SubSeq(toks, 5, Len(toks))) IN
         IF rest.ok THEN [ok |-> TRUE, f |-> rest.f @@ (toks[1].v.s :> toks[3].v)]
         ELSE rest

\* the text without its white space, which JSON.parse skips between tokens
RECURSIVE DropWs(_)
DropWs(toks) ==
    IF toks = <<>> THEN <<>>
    ELSE IF Head(toks).k = "ws" THEN DropWs(Tail(toks))
    ELSE <<Head(toks)>> \o DropWs(Tail(toks))

\* JSON.parse: [ok, value]
JSONParse(text) ==
    LET toks == DropWs(text)
        n == Len(toks)
    IN IF n = 0 THEN [ok |-> FALSE, value |-> PScalar(JUndef)]
       ELSE IF n = 1 /\ toks[1].k = "lit" THEN [ok |-> TRUE, value |-> PScalar(toks[1].v)]
       ELSE IF n = 1 /\ toks[1].k = "nested" THEN [ok |-> TRUE, value |-> PArr]
       ELSE IF n >= 2 /\ toks[1].k = "{" /\ toks[n].k = "}"
         THEN IF n = 2 THEN [ok |-> TRUE, value |-> PObj(NoFields)]
              ELSE LET m == ParseMembers(SubSeq(toks, 2, n - 1)) IN
                   [ok |-> m.ok, value |-> IF m.ok THEN PObj(m.f) ELSE PScalar(JUndef)]
       ELSE [ok |-> FALSE, value |-> PScalar(JUndef)]

\* String.prototype.trim on a text
RECURSIVE TrimWsLeft(_)
TrimWsLeft(toks) ==
    IF toks = <<>> THEN <<>>
    ELSE IF Head(toks).k = "ws" THEN TrimWsLeft(Tail(toks)) ELSE toks

RECURSIVE TrimWsRight(_)
TrimWsRight(toks) ==
    IF toks = <<>> THEN <<>>
    ELSE IF toks[Len(toks)].k = "ws" THEN TrimWsRight(SubSeq(toks, 1, Len(toks) - 1))
    ELSE toks

\* raw.indexOf('{') and raw.lastIndexOf('}'), 0 when there is none (the code's -1)
IndexOfOpen(toks) ==
    IF \E i \in 1..Len(toks) : toks[i].k = "{"
      THEN CHOOSE i \in 1..Len(toks) :
               /\ toks[i].k = "{"
               /\ \A j \in 1..(i - 1) : toks[j].k # "{"
      ELSE 0

LastIndexOfClose(toks) ==
    IF \E i \in 1..Len(toks) : toks[i].k = "}"
      THEN CHOOSE i \in 1..Len(toks) :
               /\ toks[i].k = "}"
               /\ \A j \in (i + 1)..Len(toks) : toks[j].k # "}"
      ELSE 0

\* 'Gemini returned empty text'
MSG_EMPTY_TEXT ==
    <<71, 101, 109, 105, 110, 105, 32, 114, 101, 116, 117, 114, 110, 101, 100, 32,
      101, 109, 112, 116, 121, 32, 116, 101, 120, 116>>
\* 'Gemini returned non-JSON output'
MSG_NON_JSON ==
    <<71, 101, 109, 105, 110, 105, 32, 114, 101, 116, 117, 114, 110, 101, 100, 32,
      110, 111, 110, 45, 74, 83, 79, 78, 32, 111, 117, 116, 112, 117, 116>>
\* 'Gemini JSON parse failed: Unexpected token'
MSG_PARSE_FAILED ==
    <<71, 101, 109, 105, 110, 105, 32, 74, 83, 79, 78, 32, 112, 97, 114, 115, 101,
      32, 102, 97, 105, 108, 101, 100, 58, 32, 85, 110, 101, 120, 112, 101, 99,
      116, 101, 100, 32, 116, 111, 107, 101, 110>>

parseJsonFromText(text) ==
    LET raw == TrimWsRight(TrimWsLeft(text))
        direct == JSONParse(raw)
        start == IndexOfOpen(raw)
        end == LastIndexOfClose(raw)
        candidate == JSONParse(SubSeq(raw, start, end))
    IN IF raw = <<>> THEN Throw(Err(MSG_EMPTY_TEXT, 0, 0, ""))
       ELSE IF direct.ok THEN Ok(direct.value)
       ELSE IF start = 0 \/ end = 0 \/ end <= start THEN Throw(Err(MSG_NON_JSON, 0, 0, ""))
       ELSE IF candidate.ok THEN Ok(candidate.value)
       ELSE Throw(Err(MSG_PARSE_FAILED, 0, 0, ""))

(***************************************************************************)
(* Validation of the diagnosis payload                                     *)
(***************************************************************************)
\* 'Invalid LLM response shape'
MSG_SHAPE ==
    <<73, 110, 118, 97, 108, 105, 100, 32, 76, 76, 77, 32, 114, 101, 115, 112,
      111, 110, 115, 101, 32, 115, 104, 97, 112, 101>>
\* 'Invalid LLM response: condition is required'
MSG_CONDITION ==
    <<73, 110, 118, 97, 108, 105, 100, 32, 76, 76, 77, 32, 114, 101, 115, 112,
      111, 110, 115, 101, 58, 32, 99, 111, 110, 100, 105, 116, 105, 111, 110, 32,
      105, 115, 32, 114, 101, 113, 117, 105, 114, 101, 100>>
\* 'Invalid LLM response: reasoning is required'
MSG_REASONING ==
    <<73, 110, 118, 97, 108, 105, 100, 32, 76, 76, 77, 32, 114, 101, 115, 112,
      111, 110, 115, 101, 58, 32, 114, 101, 97, 115, 111, 110, 105, 110, 103, 32,
      105, 115, 32, 114, 101, 113, 117, 105, 114, 101, 100>>
\* 'Invalid LLM response: severity must be 1, 2, or 3'
MSG_SEVERITY ==
    <<73, 110, 118, 97, 108, 105, 100, 32, 76, 76, 77, 32, 114, 101, 115, 112,
      111, 110, 115, 101, 58, 32, 115, 101, 118, 101, 114, 105, 116, 121, 32,
      109, 117, 115, 116, 32, 98, 101, 32, 49, 44, 32, 50, 44, 32, 111, 114, 32, 51>>

\* typeof x === 'string' ? x.trim() : ''
TrimmedString(x) == IF x.t = "string" THEN Trim(x.s) ELSE <<>>

\* a diagnosis: the record validateAndNormalize builds
Diagnosis(condition, severity, reasoning, languageCode) ==
    [condition |-> condition, severity |-> severity, reasoning |-> reasoning,
     languageCode |-> languageCode]

NoDiagnosis == Diagnosis(<<>>, JUndef, <<>>, <<>>)

DOk(d) == [ok |-> TRUE, value |-> d, err |-> NoError]

DThrow(err) == [ok |-> FALSE, value |-> NoDiagnosis, err |-> err]

\* mutant: the upper bound of the severity range is not checked
validateAndNormalize_NoUpperBound(obj, fallbackLanguageCode) ==
    IF obj.t # "object" THEN DThrow(Err(MSG_SHAPE, 0, 0, ""))
    ELSE
    LET condition == TrimmedString(Field(obj.f, K_condition))
        reasoning == TrimmedString(Field(obj.f, K_reasoning))
        severity == ToNumber(Field(obj.f, K_severity))
        rawLanguageCode ==
            IF Field(obj.f, K_languageCode).t = "string"
              THEN ToLowerCase(Trim(Field(obj.f, K_languageCode).s))
              ELSE <<>>
        languageCode ==
            IF IsSupported(rawLanguageCode) THEN rawLanguageCode ELSE fallbackLanguageCode
    IN IF condition = <<>> THEN DThrow(Err(MSG_CONDITION, 0, 0, ""))
       ELSE IF reasoning = <<>> THEN DThrow(Err(MSG_REASONING, 0, 0, ""))
       ELSE IF ~ IsInteger(severity) \/ severity.n < 2
         THEN DThrow(Err(MSG_SEVERITY, 0, 0, ""))
       ELSE DOk(Diagnosis(condition, severity, reasoning, languageCode))

\* mutant: an invalid or missing severity is replaced by 1 instead of rejected
validateAndNormalize_DefaultSeverity(obj, fallbackLanguageCode) ==
    IF obj.t # "object" THEN DThrow(Err(MSG_SHAPE, 0, 0, ""))
    ELSE
    LET condition == TrimmedString(Field(obj.f, K_condition))
        reasoning == TrimmedString(Field(obj.f, K_reasoning))
        given == ToNumber(Field(obj.f, K_severity))
        severity == IF ~ IsInteger(given) \/ given.n < 2 \/ given.n > 6 THEN JNum(2) ELSE given
        rawLanguageCode ==
            IF Field(obj.f, K_languageCode).t = "string"
              THEN ToLowerCase(Trim(Field(obj.f, K_languageCode).s))
              ELSE <<>>
        languageCode ==
            IF IsSupported(rawLanguageCode) THEN rawLanguageCode ELSE fallbackLanguageCode
    IN IF condition = <<>> THEN DThrow(Err(MSG_CONDITION, 0, 0, ""))
       ELSE IF reasoning = <<>> THEN DThrow(Err(MSG_REASONING, 0, 0, ""))
       ELSE IF ~ IsInteger(severity) \/ severity.n < 2 \/ severity.n > 6
         THEN DThrow(Err(MSG_SEVERITY, 0, 0, ""))
       ELSE DOk(Diagnosis(condition, severity, reasoning, languageCode))

\* validateAndNormalize: [ok, value, err]
validateAndNormalize(obj, fallbackLanguageCode) ==
    IF obj.t # "object" THEN DThrow(Err(MSG_SHAPE, 0, 0, ""))
    ELSE
    LET condition == TrimmedString(Field(obj.f, K_condition))
        reasoning == TrimmedString(Field(obj.f, K_reasoning))
        severity == ToNumber(Field(obj.f, K_severity))
        rawLanguageCode ==
            IF Field(obj.f, K_languageCode).t = "string"
              THEN ToLowerCase(Trim(Field(obj.f, K_languageCode).s))
              ELSE <<>>
        languageCode ==
            IF IsSupported(rawLanguageCode) THEN rawLanguageCode ELSE fallbackLanguageCode
    IN IF condition = <<>> THEN DThrow(Err(MSG_CONDITION, 0, 0, ""))
       ELSE IF reasoning = <<>> THEN DThrow(Err(MSG_REASONING, 0, 0, ""))
       ELSE IF ~ IsInteger(severity) \/ severity.n < 2 \/ severity.n > 6
         THEN DThrow(Err(MSG_SEVERITY, 0, 0, ""))
       ELSE DOk(Diagnosis(condition, severity, reasoning, languageCode))

(***************************************************************************)
(* Configuration: process.env and the candidate model lists                *)
(***************************************************************************)
\* String.prototype.split(',')
RECURSIVE SplitComma(_)
SplitComma(s) ==
    IF \E i \in 1..Len(s) : s[i] = 44
      THEN LET i == CHOOSE k \in 1..Len(s) : s[k] = 44 /\ \A j \in 1..(k - 1) : s[j] # 44
           IN <<SubSeq(s, 1, i - 1)>> \o SplitComma(SubSeq(s, i + 1, Len(s)))
      ELSE <<s>>

\* .map((m) => m.trim()).filter(Boolean)
RECURSIVE TrimAndFilter(_)
TrimAndFilter(parts) ==
    IF parts = <<>> THEN <<>>
    ELSE IF Trim(Head(parts)) = <<>> THEN TrimAndFilter(Tail(parts))
    ELSE <<Trim(Head(parts))>> \o TrimAndFilter(Tail(parts))

M_25_flash == <<103, 101, 109, 105, 110, 105, 45, 50, 46, 53, 45, 102, 108, 97, 115, 104>>
M_20_flash == <<103, 101, 109, 105, 110, 105, 45, 50, 46, 48, 45, 102, 108, 97, 115, 104>>
M_flash_latest ==
    <<103, 101, 109, 105, 110, 105, 45, 102, 108, 97, 115, 104, 45, 108, 97, 116, 101, 115, 116>>
M_25_flash_image ==
    <<103, 101, 109, 105, 110, 105, 45, 50, 46, 53, 45, 102, 108, 97, 115, 104, 45, 105,
      109, 97, 103, 101>>

\* an environment: each variable's string, <<>> when unset (an empty string is
\* as falsy as an unset variable); apiKey: whether GEMINI_API_KEY is set
Env(apiKey, model1, models, imageModel, imageModels) ==
    [apiKey |-> apiKey, GEMINI_MODEL |-> model1, GEMINI_MODELS |-> models,
     GEMINI_IMAGE_MODEL |-> imageModel, GEMINI_IMAGE_MODELS |-> imageModels]

\* a || b on two strings
OrElse(a, b) == IF a # <<>> THEN a ELSE b

getCandidateModels(e) ==
    LET configured == OrElse(e.GEMINI_MODEL, e.GEMINI_MODELS) IN
    IF configured # <<>> /\ Trim(configured) # <<>>
      THEN TrimAndFilter(SplitComma(configured))
      ELSE <<M_25_flash, M_20_flash, M_flash_latest>>

getImageCandidateModels(e) ==
    LET configured == OrElse(e.GEMINI_IMAGE_MODEL, e.GEMINI_IMAGE_MODELS) IN
    IF configured # <<>> /\ Trim(configured) # <<>>
      THEN TrimAndFilter(SplitComma(configured))
      ELSE <<M_25_flash, M_25_flash_image, M_20_flash>>

(***************************************************************************)
(* Images                                                                  *)
(***************************************************************************)
\* [a-z0-9.+-], case-insensitively when ci
IsMimeChar(c, ci) ==
    \/ c >= 97 /\ c <= 122
    \/ ci /\ c >= 65 /\ c <= 90
    \/ c >= 48 /\ c <= 57
    \/ c \in {43, 45, 46}

\* 'image/'
STR_IMAGE_SLASH == <<105, 109, 97, 103, 101, 47>>

\* /^image\/[a-z0-9.+-]+$/i.test(s)
IsImageMime(s) ==
    /\ Len(s) > Len(STR_IMAGE_SLASH)
    /\ ToLowerCase(SubSeq(s, 1, Len(STR_IMAGE_SLASH))) = STR_IMAGE_SLASH
    /\ \A i \in (Len(STR_IMAGE_SLASH) + 1)..Len(s) : IsMimeChar(s[i], TRUE)

\* an image argument: t is "null" (absent or falsy), "object" or another typeof
Image(t, data, mimeType) == [t |-> t, data |-> data, mimeType |-> mimeType]

NoImage == Image("null", JUndef, JUndef)

\* 'data:' and ';base64,'
STR_DATA == <<100, 97, 116, 97, 58>>
STR_BASE64 == <<59, 98, 97, 115, 101, 54, 52, 44>>

\* data.match(/^data:([^;]+);base64,(.+)$/): 0 when there is no match, else the
\* index of the ';' that ends the MIME type ('.' matches no line terminator)
DataUrlSemicolon(data) ==
    IF /\ Len(data) > Len(STR_DATA)
       /\ SubSeq(data, 1, Len(STR_DATA)) = STR_DATA
       /\ \E i \in (Len(STR_DATA) + 1)..Len(data) : data[i] = 59
      THEN LET i == CHOOSE k \in (Len(STR_DATA) + 1)..Len(data) :
                        data[k] = 59 /\ \A j \in (Len(STR_DATA) + 1)..(k - 1) : data[j] # 59
           IN IF /\ i > Len(STR_DATA) + 1
                 /\ Len(data) >= i + Len(STR_BASE64)
                 /\ SubSeq(data, i, i + Len(STR_BASE64) - 1) = STR_BASE64
                 /\ \A j \in (i + Len(STR_BASE64))..Len(data) :
                        data[j] \notin {10, 13, 8232, 8233}
                THEN i ELSE 0
      ELSE 0

\* the inline attachment normalizeImage builds from a validated image
normalizeImage(image) ==
    LET mimeType == ToLowerCase(Trim(image.mimeType.s))
        data == Trim(image.data.s)
        semi == DataUrlSemicolon(data)
    IN IF semi # 0
         THEN [mimeType |-> ToLowerCase(Trim(SubSeq(data, Len(STR_DATA) + 1, semi - 1))),
               data |-> SubSeq(data, semi + Len(STR_BASE64), Len(data))]
         ELSE [mimeType |-> mimeType, data |-> data]

NoAttachment == [mimeType |-> <<>>, data |-> <<>>]

(***************************************************************************)
(* Bounded inputs: the environments, the requests and the texts the        *)
(* generative backend may answer with                                      *)
(***************************************************************************)
\* 'gemini-pro, gemini-2.0-flash' and ' , '
CFG_TWO ==
    <<103, 101, 109, 105, 110, 105, 45, 112, 114, 111, 44, 32, 103, 101, 109, 105,
      110, 105, 45, 50, 46, 48, 45, 102, 108, 97, 115, 104>>
CFG_BLANKS == <<32, 44, 32>>

Envs ==
    { Env(TRUE, <<>>, <<>>, <<>>, <<>>),
      Env(FALSE, <<>>, <<>>, <<>>, <<>>),
      Env(TRUE, <<>>, CFG_TWO, CFG_TWO, <<>>),
      Env(TRUE, CFG_BLANKS, CFG_TWO, <<>>, <<>>) }

S_flu == <<102, 108, 117>>
S_telugu == <<3076, 3082>>
S_png == <<105, 109, 97, 103, 101, 47, 112, 110, 103>>
S_plain == <<116, 101, 120, 116, 47, 112, 108, 97, 105, 110>>
S_base64 == <<65, 65, 65, 65>>
\* 'data:text/html;base64,AAAA'
S_dataurl_html ==
    <<100, 97, 116, 97, 58, 116, 101, 120, 116, 47, 104, 116, 109, 108, 59, 98, 97,
      115, 101, 54, 52, 44, 65, 65, 65, 65>>

Request(symptomsIsArray, symptoms, image, languageCode) ==
    [isArray |-> symptomsIsArray, symptoms |-> symptoms, image |-> image,
     languageCode |-> languageCode]

PngImage == Image("object", JStr(S_base64), JStr(S_png))

Requests ==
    { Request(TRUE, <<JStr(S_flu)>>, NoImage, JUndef),
      Request(TRUE, <<JStr(S_flu)>>, NoImage, JStr(L_te)),
      Request(TRUE, <<JStr(S_flu)>>, NoImage, JStr(<<32, 69, 83, 32>>)),   \* ' ES '
      Request(TRUE, <<JStr(S_flu)>>, NoImage, JStr(L_en)),
      Request(TRUE, <<JStr(S_flu)>>, NoImage, JStr(<<120, 120>>)),         \* 'xx'
      Request(TRUE, <<JStr(S_flu), JStr(S_telugu)>>, NoImage, JUndef),
      Request(TRUE, <<>>, PngImage, JUndef),
      Request(TRUE, <<JStr(S_flu)>>, Image("object", JStr(S_dataurl_html), JStr(S_png)), JUndef),
      Request(TRUE, <<>>, NoImage, JUndef),
      Request(FALSE, <<>>, NoImage, JUndef),
      Request(TRUE, <<JStr(<<32>>)>>, NoImage, JUndef),
      Request(TRUE, <<JStr(S_flu), JNum(2)>>, NoImage, JUndef),
      Request(TRUE, <<JStr(S_flu)>>, Image("object", JStr(S_base64), JStr(S_plain)), JUndef),
      Request(TRUE, <<JStr(S_flu)>>, Image("string", JUndef, JUndef), JUndef) }

\* the text of an object: { "key": value, ... } from its <<key, value>> pairs
RECURSIVE MemberToks(_)
MemberToks(pairs) ==
    IF pairs = <<>> THEN <<>>
    ELSE <<TLit(JStr(pairs[1][1])), Tok(":"), TWs,
           IF pairs[1][2].t = "object" THEN TNested ELSE TLit(pairs[1][2])>>
         \o (IF Len(pairs) > 1 THEN <<Tok(","), TWs>> ELSE <<>>)
         \o MemberToks(Tail(pairs))

ObjText(pairs) == <<Tok("{")>> \o MemberToks(pairs) \o <<Tok("}")>>

V_Flu == JStr(<<70, 108, 117>>)
V_Rest == JStr(<<32, 82, 101, 115, 116, 32>>)          \* ' Rest '
V_Gripe == JStr(<<103, 114, 105, 112, 101>>)
V_Reposo == JStr(<<114, 101, 112, 111, 115, 111>>)
V_Blank == JStr(<<32, 32>>)

\* condition, severity, reasoning, languageCode; JUndef leaves the member out
RECURSIVE DropUndefined(_)
DropUndefined(pairs) ==
    IF pairs = <<>> THEN <<>>
    ELSE IF pairs[1][2].t = "undefined" THEN DropUndefined(Tail(pairs))
    ELSE <<pairs[1]>> \o DropUndefined(Tail(pairs))

Payload(c, sev, r, l) ==
    ObjText(DropUndefined(<< <<K_condition, c>>, <<K_severity, sev>>,
                             <<K_reasoning, r>>, <<K_languageCode, l>> >>))

PayloadTexts ==
    { Payload(V_Flu, JNum(4), V_Rest, JStr(L_en)),
      Payload(V_Flu, JNum(2), V_Rest, JStr(<<32, 84, 69, 32>>)),    \* ' TE '
      Payload(V_Flu, JNum(6), V_Rest, JStr(<<120, 120>>)),          \* 'xx'
      Payload(V_Flu, JNum(6), V_Rest, JUndef),
      Payload(V_Flu, JNum(4), V_Rest, JNum(2)),
      Payload(V_Flu, JStr(<<50>>), V_Rest, JStr(L_es)),             \* severity '2'
      Payload(V_Flu, JBool(TRUE), V_Rest, JStr(L_en)),
      Payload(V_Flu, JNum(0), V_Rest, JStr(L_en)),
      Payload(V_Flu, JNum(8), V_Rest, JStr(L_en)),
      Payload(V_Flu, JNum(5), V_Rest, JStr(L_en)),                  \* 2.5
      Payload(V_Flu, JNull, V_Rest, JStr(L_en)),
      Payload(V_Flu, JUndef, V_Rest, JStr(L_en)),
      Payload(V_Gripe, JUndef, V_Reposo, JUndef),
      Payload(V_Gripe, JUndef, V_Blank, JUndef),
      Payload(JUndef, JNum(4), V_Rest, JStr(L_en)),
      Payload(V_Blank, JNum(4), V_Rest, JStr(L_en)),
      Payload(JNum(2), JNum(4), V_Rest, JStr(L_en)),
      Payload(V_Flu, JNum(4), JUndef, JStr(L_en)),
      Payload(V_Flu, JNum(4), JNested, JStr(L_en)),
      Payload(JUndef, JUndef, JUndef, JUndef) }

\* the same payload inside a code fence and after prose; prose holding braces
\* of its own; a truncated object; an array; the literal null; no text
NoisyTexts ==
    { <<TWs, TWord, TWs>> \o Payload(V_Flu, JNum(2), V_Rest, JStr(L_te)) \o <<TWs, TWord, TWs>>,
      <<TWord, TWs, TWord, TWs>> \o Payload(V_Gripe, JUndef, V_Reposo, JUndef),
      <<TWord, Tok("{"), TWord, Tok("}"), TWs>> \o Payload(V_Flu, JNum(4), V_Rest, JStr(L_en)),
      <<Tok("{"), TLit(V_Flu), Tok(":")>>,
      <<TWord, TWs, TWord>>,
      <<TNested>>,
      <<TLit(JNull)>>,
      <<TWs>>,
      <<>> }

Texts == PayloadTexts \cup NoisyTexts

K_symptomsText == <<115, 121, 109, 112, 116, 111, 109, 115, 84, 101, 120, 116>>

\* { "symptomsText": text, "languageCode": code }; JUndef leaves the member out
AudioPayload(text, code) ==
    ObjText(DropUndefined(<< <<K_symptomsText, text>>, <<K_languageCode, code>> >>))

\* answers to the transcription prompt and to the language prompt, one of
\* them after prose; text that is no JSON; the literal null
AudioTexts ==
    { AudioPayload(JStr(S_flu), JStr(L_en)),
      AudioPayload(JStr(S_flu), JStr(L_es)),
      AudioPayload(JStr(S_telugu), JStr(L_en)),
      AudioPayload(JStr(S_telugu), JStr(<<32, 84, 69, 32>>)),       \* ' TE '
      AudioPayload(JStr(S_flu), JUndef),
      AudioPayload(JStr(<<32, 32>>), JStr(L_es)),
      AudioPayload(JNum(2), JStr(L_hi)),
      AudioPayload(JUndef, JStr(L_te)),
      AudioPayload(JUndef, JStr(L_en)),
      AudioPayload(JUndef, JStr(<<120, 120>>)),                     \* 'xx'
      AudioPayload(JUndef, JNum(2)),
      <<TWord, TWs>> \o AudioPayload(JStr(S_telugu), JStr(L_te)),
      <<TWord, TWs, TWord>>,
      <<TLit(JNull)>> }

(***************************************************************************)
(* State of the diagnosis service                                          *)
(***************************************************************************)
VARIABLES
    env,          \* process.env
    model,        \* module-level handle: the candidate it is bound to, or Null
    modelName,    \* module-level modelName, or Null
    pc,           \* position of generateDiagnosis: idle, primary, translate, done
    input,        \* the argument of generateDiagnosis
    payload,      \* the inline attachment of the primary request
    cands,        \* callGeminiJson: candidateModels
    idx,          \* callGeminiJson: index of the next candidate of the for loop
    looping,      \* callGeminiJson: FALSE once the loop has hit a break
    lastError,    \* callGeminiJson: lastError (NoError: null)
    result,       \* callGeminiJson: text of result (<<>>: no result)
    calls,        \* the generateContent calls of the current chain, in order
    parsed,       \* generateDiagnosis: parsed, the primary payload
    diag,         \* the validated diagnosis handed to translateDiagnosisFields
    translation,  \* what became of the translation: none, skipped, failed, empty, applied
    outcome       \* how generateDiagnosis ended: [kind, value, err]

llmVars ==
    <<env, model, modelName, pc, input, payload, cands, idx, looping, lastError,
      result, calls, parsed, diag, translation, outcome>>

VARIABLES
    cache,        \* scraperService: the cache entry of the known system's url
    now,          \* Date.now(), in milliseconds
    hospitals,    \* getWaitTimes: the argument of the call in progress
    tasks,        \* getWaitTimes: the position of each hospital's async callback
    values,       \* Promise.all: the slot of each callback's promise
    settled,      \* the indexes of the callbacks in the order they completed
    batch,        \* position of getWaitTimes: idle, running, returned
    results       \* what getWaitTimes returned

waitVars == <<cache, now, hospitals, tasks, values, settled, batch, results>>

VARIABLES
    audio,        \* transcribeSymptomsFromAudio: input.audio
    symptomsText, \* transcribeSymptomsFromAudio: symptomsText
    spokenCode,   \* transcribeSymptomsFromAudio: languageCode
    firstCode,    \* languageCode as the transcription call left it
    resolvedCode, \* languageCode after the try/catch of the detection call
    detection,    \* what became of the detection call: none, failed, unsupported, applied
    heard         \* how transcribeSymptomsFromAudio ended: [kind, symptomsText, languageCode, err]

audioVars == <<audio, symptomsText, spokenCode, firstCode, resolvedCode, detection, heard>>

\* concurrent invocations of callGeminiJson on the module-level handle
VARIABLES
    runs          \* the position of each invocation: [pc, cands, idx, candidate, handle, ok]

sharedVars == <<runs>>

\* the recording flow of the Symptoms page
VARIABLES
    recorder,         \* mediaRecorderRef.current.state, and "flushing" between stop() and its last data
    audioChunks,      \* audioChunksRef.current: the number of chunks it holds
    isTranscribing,   \* isTranscribingRef.current
    lastTranscribeAt, \* lastTranscribeAtRef.current
    clock,            \* Date.now() in the browser
    request           \* the call of transcribeCurrentAudio that is past its guard

clientVars == <<recorder, audioChunks, isTranscribing, lastTranscribeAt, clock, request>>

\* a function under study: its argument and the values its calls returned
VARIABLES subject, applied

pureVars == <<subject, applied>>

\* the HTTP exchange of the controllers: route, body, status and the service invoked
VARIABLE http

Null == <<>>

NoOutcome == [kind |-> "none", value |-> NoDiagnosis, err |-> NoError]

Returned(d) == [kind |-> "returned", value |-> d, err |-> NoError]

Thrown(e) == [kind |-> "thrown", value |-> NoDiagnosis, err |-> e]

NoRequest == Request(FALSE, <<>>, NoImage, JUndef)

InitLLM ==
    /\ env \in Envs
    /\ model = Null
    /\ modelName = Null
    /\ pc = "idle"
    /\ input = NoRequest
    /\ payload = NoAttachment
    /\ cands = <<>>
    /\ idx = 1
    /\ looping = FALSE
    /\ lastError = NoError
    /\ result = <<>>
    /\ calls = <<>>
    /\ parsed = PScalar(JUndef)
    /\ diag = NoDiagnosis
    /\ translation = "none"
    /\ outcome = NoOutcome

(***************************************************************************)
(* generateDiagnosis: input handling                                       *)
(***************************************************************************)
\* requestedLanguageCode, <<>> for null
requestedLanguageCode(inp) ==
    LET candidateLanguageCode ==
            IF inp.languageCode.t = "string" /\ Trim(inp.languageCode.s) # <<>>
              THEN ToLowerCase(Trim(inp.languageCode.s))
              ELSE <<>>
    IN IF candidateLanguageCode # <<>> /\ IsSupported(candidateLanguageCode)
         THEN candidateLanguageCode ELSE <<>>

\* Array.isArray(symptoms) && symptoms.every((s) => typeof s === 'string' && s.trim())
ValidSymptoms(inp) ==
    /\ inp.isArray
    /\ \A i \in 1..Len(inp.symptoms) :
           inp.symptoms[i].t = "string" /\ Trim(inp.symptoms[i].s) # <<>>

ValidImage(image) ==
    /\ image.t = "object"
    /\ image.data.t = "string"
    /\ image.mimeType.t = "string"
    /\ Trim(image.data.s) # <<>>
    /\ IsImageMime(Trim(image.mimeType.s))

\* 'Invalid symptoms input', 'Invalid image input',
\* 'Either symptoms text or an image is required'
MSG_BAD_SYMPTOMS ==
    <<73, 110, 118, 97, 108, 105, 100, 32, 115, 121, 109, 112, 116, 111, 109, 115,
      32, 105, 110, 112, 117, 116>>
MSG_BAD_IMAGE ==
    <<73, 110, 118, 97, 108, 105, 100, 32, 105, 109, 97, 103, 101, 32, 105, 110,
      112, 117, 116>>
MSG_NOTHING ==
    <<69, 105, 116, 104, 101, 114, 32, 115, 121, 109, 112, 116, 111, 109, 115, 32,
      116, 101, 120, 116, 32, 111, 114, 32, 97, 110, 32, 105, 109, 97, 103, 101,
      32, 105, 115, 32, 114, 101, 113, 117, 105, 114, 101, 100>>

\* variant: a request with no symptoms and no image passes
InputError_NothingAllowed(inp) ==
    IF ~ ValidSymptoms(inp) THEN Err(MSG_BAD_SYMPTOMS, 0, 400, "Invalid symptoms input")
    ELSE IF inp.image.t # "null" /\ ~ ValidImage(inp.image)
      THEN Err(MSG_BAD_IMAGE, 0, 400, "Invalid image input")
    ELSE NoError

\* the input-validation error of a request, NoError when it passes
InputError(inp) ==
    IF ~ ValidSymptoms(inp) THEN Err(MSG_BAD_SYMPTOMS, 0, 400, "Invalid symptoms input")
    ELSE IF inp.image.t # "null" /\ ~ ValidImage(inp.image)
      THEN Err(MSG_BAD_IMAGE, 0, 400, "Invalid image input")
    ELSE IF Len(inp.symptoms) < 1 /\ inp.image.t = "null"
      THEN Err(MSG_NOTHING, 0, 400, "Either symptoms text or an image is required")
    ELSE NoError

\* the strings of a validated symptoms array
SymptomStrings(inp) == [i \in 1..Len(inp.symptoms) |-> inp.symptoms[i].s]

\* fallbackLanguageCode = requestedLanguageCode || autoDetectedLanguageCode
fallbackLanguageCode(inp) ==
    OrElse(requestedLanguageCode(inp), detectLanguageFromSymptoms(SymptomStrings(inp)))

(***************************************************************************)
(* callGeminiJson                                                          *)
(***************************************************************************)
\* the loop has ended: by a break or by running out of candidates
LoopEnded == ~ looping \/ idx > Len(cands)

\* entry of the function: let result; let lastError = null; for (...)
EnterChain(candidateModels) ==
    /\ cands' = candidateModels
    /\ idx' = 1
    /\ looping' = TRUE
    /\ lastError' = NoError
    /\ result' = <<>>
    /\ calls' = <<>>

\* what the backend answered to an attempt: a text or an error
Answer(ok, text, err) == [ok |-> ok, text |-> text, err |-> err]

Answers ==
    {Answer(TRUE, t, NoError) : t \in Texts} \cup {Answer(FALSE, <<>>, e) : e \in BackendErrors}

\* what the backend may answer to a request that carries an audio clip
AudioAnswers ==
    {Answer(TRUE, t, NoError) : t \in AudioTexts}
        \cup {Answer(FALSE, <<>>, e) : e \in {E_404, E_Overloaded, E_Network}}

\* what the backend may answer to a diagnosis or translation request sent to
\* candidate
AnswersTo(candidate) ==
    Answers \cup IF candidate = M_25_flash_image
                   THEN {Answer(FALSE, <<>>, E_ImageModelOverloaded)}
                   ELSE {}

\* mutant: no break after a successful attempt
RetryNext_NoBreak(ok, err) == IF ok THEN TRUE ELSE isModelNotFoundError(err)

\* mutant: the loop gives up after the first failure, whatever its class
RetryNext_GiveUp(ok, err) == FALSE

\* mutant: every failure moves on to the next candidate
RetryNext_Always(ok, err) == ~ ok

\* whether the for loop goes on to the next candidate after an attempt: a
\* success breaks; in the catch, if (!retryNext) break
RetryNext(ok, err) == IF ok THEN FALSE ELSE isModelNotFoundError(err)

\* one entry of the log of generateContent calls
Call(candidate, handle, a) ==
    [candidate |-> candidate, handle |-> handle, ok |-> a.ok, text |-> a.text, err |-> a.err]

\* one iteration of the for loop over the candidates
Attempt ==
    /\ pc \in {"primary", "translate", "transcribe", "detect"}
    /\ ~ LoopEnded
    /\ LET candidate == cands[idx]
           \* if (!model || modelName !== candidate) { resetModel(); model = ...; }
           bound == IF model = Null \/ modelName # candidate THEN candidate ELSE model
           \* getModel() throws before any call is issued when the key is missing
           answers == IF ~ env.apiKey THEN {Answer(FALSE, <<>>, ConfigError)}
                      ELSE IF pc \in {"transcribe", "detect"} THEN AudioAnswers
                      ELSE AnswersTo(candidate)
       IN \E a \in answers :
            /\ calls' = IF env.apiKey THEN Append(calls, Call(candidate, bound, a)) ELSE calls
            \* result = await ...; lastError = null  /  lastError = err
            /\ result' = IF a.ok THEN a.text ELSE result
            /\ lastError' = a.err
            /\ looping' = RetryNext(a.ok, a.err)
            /\ idx' = IF RetryNext(a.ok, a.err) THEN idx + 1 ELSE idx
            \* resetModel() is reached only on the way to the next candidate
            /\ model' = IF ~ a.ok /\ RetryNext(a.ok, a.err) THEN Null ELSE bound
            /\ modelName' = IF ~ a.ok /\ RetryNext(a.ok, a.err) THEN Null ELSE candidate
    /\ UNCHANGED <<env, pc, input, payload, cands, parsed, diag, translation, outcome>>
    /\ UNCHANGED waitVars
    /\ UNCHANGED audioVars
    /\ UNCHANGED <<pureVars, http>>
    /\ UNCHANGED <<sharedVars, clientVars>>

\* after the loop: throw normalizeGeminiError(lastError) or parse the text
ChainResult ==
    IF lastError # NoError THEN Throw(normalizeGeminiError(lastError))
    ELSE parseJsonFromText(result)

(***************************************************************************)
(* generateDiagnosis and translateDiagnosisFields                          *)
(***************************************************************************)
\* 'Uploaded image could not be processed'
MSG_IMAGE_FAILED ==
    <<85, 112, 108, 111, 97, 100, 101, 100, 32, 105, 109, 97, 103, 101, 32, 99,
      111, 117, 108, 100, 32, 110, 111, 116, 32, 98, 101, 32, 112, 114, 111, 99,
      101, 115, 115, 101, 100>>

\* variant: the primary call always gets the text-only list
PrimaryCandidates_TextOnly(e, inp) == getCandidateModels(e)

\* image ? getImageCandidateModels() : getCandidateModels()
PrimaryCandidates(e, inp) ==
    IF inp.image.t # "null" THEN getImageCandidateModels(e) ELSE getCandidateModels(e)

\* a request arrives: validation, prompt and attachment, then the primary call
\* generateDiagnosis(inp) up to the primary call
CallDiagnosis(inp) ==
    /\ input' = inp
    /\ parsed' = PScalar(JUndef)
    /\ diag' = NoDiagnosis
    /\ translation' = "none"
    /\ IF InputError(inp) # NoError
         THEN /\ pc' = "done"
              /\ outcome' = Thrown(InputError(inp))
              /\ payload' = NoAttachment
              /\ cands' = <<>>
              /\ idx' = 1
              /\ looping' = FALSE
              /\ lastError' = NoError
              /\ result' = <<>>
              /\ calls' = <<>>
         ELSE /\ pc' = "primary"
              /\ outcome' = NoOutcome
              /\ payload' = IF inp.image.t # "null" THEN normalizeImage(inp.image)
                            ELSE NoAttachment
              /\ EnterChain(PrimaryCandidates(env, inp))

Start ==
    /\ pc \in {"idle", "done"}
    /\ \E inp \in Requests : CallDiagnosis(inp)
    /\ UNCHANGED <<env, model, modelName>>
    /\ UNCHANGED waitVars
    /\ UNCHANGED audioVars
    /\ UNCHANGED <<pureVars, http>>
    /\ UNCHANGED <<sharedVars, clientVars>>

\* catch of the primary call: the error generateDiagnosis throws instead
WrapPrimaryError(err, hasImage) ==
    IF hasImage /\ Includes(ToLowerCase(err.message), STR_IMAGE)
      THEN Err(MSG_IMAGE_FAILED, 0, 400,
               "Uploaded image could not be processed. Try a clear JPG or PNG image.")
      ELSE Err(err.message, 0, 503, "Diagnosis service returned malformed output")

\* catch around validation and translation
WrapInvalid(err) == Err(err.message, 0, 503, "Diagnosis service returned an invalid response")

\* targetLanguageCode = requestedLanguageCode || normalized.languageCode || fallbackLanguageCode
targetLanguageCode(inp, normalized) ==
    OrElse(requestedLanguageCode(inp), OrElse(normalized.languageCode, fallbackLanguageCode(inp)))

\* translateDiagnosisFields returns its argument without a call
SkipsTranslation_Never(target) == FALSE

SkipsTranslation(target) == target = Null \/ target = L_en

\* the primary call has ended: classify its failure, or validate and go on
PrimaryReturn ==
    /\ pc = "primary"
    /\ LoopEnded
    /\ LET r == ChainResult
           v == validateAndNormalize(r.value, fallbackLanguageCode(input))
           target == targetLanguageCode(input, v.value)
           d == [v.value EXCEPT !.languageCode = target]
       IN IF ~ r.ok
            THEN /\ outcome' = Thrown(WrapPrimaryError(r.err, input.image.t # "null"))
                 /\ pc' = "done"
                 /\ UNCHANGED <<parsed, diag, translation, cands, idx, looping, lastError,
                                result, calls>>
          ELSE IF ~ v.ok
            THEN /\ parsed' = r.value
                 /\ outcome' = Thrown(WrapInvalid(v.err))
                 /\ pc' = "done"
                 /\ UNCHANGED <<diag, translation, cands, idx, looping, lastError,
                                result, calls>>
          ELSE IF SkipsTranslation(target)
            THEN /\ parsed' = r.value
                 /\ diag' = d
                 /\ translation' = "skipped"
                 /\ outcome' = Returned(d)
                 /\ pc' = "done"
                 /\ UNCHANGED <<cands, idx, looping, lastError, result, calls>>
          ELSE /\ parsed' = r.value
               /\ diag' = d
               /\ translation' = "none"
               /\ outcome' = NoOutcome
               /\ pc' = "translate"
               /\ EnterChain(getCandidateModels(env))
    /\ UNCHANGED <<env, model, modelName, input, payload>>
    /\ UNCHANGED waitVars
    /\ UNCHANGED audioVars
    /\ UNCHANGED <<pureVars, http>>
    /\ UNCHANGED <<sharedVars, clientVars>>

\* if (!translatedCondition || !translatedReasoning)
EmptyTranslation(tparsed) ==
    \/ TrimmedString(Field(tparsed.f, K_condition)) = <<>>
    \/ TrimmedString(Field(tparsed.f, K_reasoning)) = <<>>

\* the rest of translateDiagnosisFields once its call has returned parsed
Translated(diagnosis, tparsed, target) ==
    LET translatedCondition == TrimmedString(Field(tparsed.f, K_condition))
        translatedReasoning == TrimmedString(Field(tparsed.f, K_reasoning))
    IN IF EmptyTranslation(tparsed)
         THEN diagnosis
         ELSE [diagnosis EXCEPT !.condition = translatedCondition,
                                !.reasoning = translatedReasoning,
                                !.languageCode = target]

\* what generateDiagnosis does with a translation call that threw
OnTranslationError(diagnosis, err) == Thrown(WrapInvalid(err))

\* the translation call has ended
TranslateReturn ==
    /\ pc = "translate"
    /\ LoopEnded
    /\ LET r == ChainResult
           t == Translated(diag, r.value, diag.languageCode)
       IN IF ~ r.ok
            THEN /\ translation' = "failed"
                 /\ outcome' = OnTranslationError(diag, r.err)
            ELSE /\ translation' = IF EmptyTranslation(r.value) THEN "empty" ELSE "applied"
                 /\ outcome' = Returned(t)
    /\ pc' = "done"
    /\ UNCHANGED <<env, model, modelName, input, payload, cands, idx, looping,
                   lastError, result, calls, parsed, diag>>
    /\ UNCHANGED waitVars
    /\ UNCHANGED audioVars
    /\ UNCHANGED <<pureVars, http>>
    /\ UNCHANGED <<sharedVars, clientVars>>

NextLLM == Start \/ Attempt \/ PrimaryReturn \/ TranslateReturn

(***************************************************************************)
(* transcribeSymptomsFromAudio                                             *)
(***************************************************************************)
\* an audio argument: t is "null" (absent or falsy), "object" or another typeof
Audio(t, data, mimeType) == [t |-> t, data |-> data, mimeType |-> mimeType]

NoAudio == Audio("null", JUndef, JUndef)

STR_AUDIO_SLASH == <<97, 117, 100, 105, 111, 47>>

\* /^audio\/[a-z0-9.+-]+$/.test(s)
IsAudioMime(s) ==
    /\ Len(s) > Len(STR_AUDIO_SLASH)
    /\ SubSeq(s, 1, Len(STR_AUDIO_SLASH)) = STR_AUDIO_SLASH
    /\ \A i \in (Len(STR_AUDIO_SLASH) + 1)..Len(s) : IsMimeChar(s[i], FALSE)

\* s.split(';')[0]
BeforeSemicolon(s) ==
    IF \E i \in 1..Len(s) : s[i] = 59
      THEN SubSeq(s, 1, (CHOOSE k \in 1..Len(s) :
                            s[k] = 59 /\ \A j \in 1..(k - 1) : s[j] # 59) - 1)
      ELSE s

\* mimeType.trim().toLowerCase().split(';')[0].trim()
NormalizedAudioMime(mimeType) == Trim(BeforeSemicolon(ToLowerCase(Trim(mimeType))))

MSG_BAD_AUDIO == <<73, 110, 118, 97, 108, 105, 100, 32, 97, 117, 100, 105, 111, 32, 105, 110, 112, 117, 116>>

MSG_BAD_AUDIO_MIME == <<73, 110, 118, 97, 108, 105, 100, 32, 97, 117, 100, 105, 111, 32, 77, 73, 77, 69, 32, 116, 121, 112, 101>>

MSG_TRANSCRIPTION_FAILED == <<84, 114, 97, 110, 115, 99, 114, 105, 112, 116, 105, 111, 110, 32, 102, 97, 105, 108, 101, 100>>

\* validateAudioInput: the error it throws, NoError when it returns
validateAudioInput(a) ==
    IF \/ a.t # "object"
       \/ a.data.t # "string"
       \/ a.mimeType.t # "string"
       \/ Trim(a.data.s) = <<>>
      THEN Err(MSG_BAD_AUDIO, 0, 400, "Invalid audio input")
    ELSE IF ~ IsAudioMime(NormalizedAudioMime(a.mimeType.s))
      THEN Err(MSG_BAD_AUDIO_MIME, 0, 400, "Invalid audio MIME type")
    ELSE NoError

EmptyTranscript ==
    Err(MSG_TRANSCRIPTION_FAILED, 0, 503, "Transcription service returned invalid output")

Heard(kind, text, code, err) ==
    [kind |-> kind, symptomsText |-> text, languageCode |-> code, err |-> err]

NoHeard == Heard("none", <<>>, <<>>, NoError)

InitAudio ==
    /\ audio = NoAudio
    /\ symptomsText = <<>>
    /\ spokenCode = <<>>
    /\ firstCode = <<>>
    /\ resolvedCode = <<>>
    /\ detection = "none"
    /\ heard = NoHeard

\* typeof parsed?.key === 'string' ? parsed.key.trim() : ''
StringField(p, key) == TrimmedString(Field(p.f, key))

\* SUPPORTED_LANGUAGES.includes(rawLang) ? rawLang : DEFAULT_LANGUAGE_CODE
TranscriptionCode(p) ==
    LET rawLang == ToLowerCase(StringField(p, K_languageCode)) IN
    IF IsSupported(rawLang) THEN rawLang ELSE DEFAULT_LANGUAGE_CODE

\* variant: the error of the detection call is thrown on
SwallowDetectionError_Rethrow(err) == err

\* catch { } around the detection call: the error that goes on, none
SwallowDetectionError(err) == NoError

\* the try block after the detection call returned langParsed
DetectedCode(code, langParsed) ==
    LET languageFromAudio == ToLowerCase(StringField(langParsed, K_languageCode)) IN
    IF IsSupported(languageFromAudio) THEN languageFromAudio ELSE code

\* variant: the script of the transcript is not looked at
ScriptCorrection_None(code, text) == code

\* if (languageCode === 'en' && symptomsText) { scriptGuess ... }
ScriptCorrection(code, text) ==
    IF code = L_en /\ text # <<>>
      THEN LET scriptGuess == detectLanguageFromSymptoms(<<text>>) IN
           IF scriptGuess # <<>> /\ scriptGuess # L_en THEN scriptGuess ELSE code
      ELSE code

\* variant: a blank transcript is returned
FinishTranscription_NoCheck(text, code) == Heard("returned", text, code, NoError)

\* if (!symptomsText) throw ...; return { symptomsText, languageCode }
FinishTranscription(text, code) ==
    IF text = <<>> THEN Heard("thrown", <<>>, <<>>, EmptyTranscript)
    ELSE Heard("returned", text, code, NoError)

\* transcribeSymptomsFromAudio(input) up to the transcription call
CallTranscribe(a) ==
    /\ audio' = a
    /\ symptomsText' = <<>>
    /\ spokenCode' = <<>>
    /\ firstCode' = <<>>
    /\ resolvedCode' = <<>>
    /\ detection' = "none"
    /\ IF validateAudioInput(a) # NoError
         THEN /\ heard' = Heard("thrown", <<>>, <<>>, validateAudioInput(a))
              /\ pc' = "done"
              /\ payload' = NoAttachment
              /\ cands' = <<>>
              /\ idx' = 1
              /\ looping' = FALSE
              /\ lastError' = NoError
              /\ result' = <<>>
              /\ calls' = <<>>
         ELSE /\ heard' = NoHeard
              /\ pc' = "transcribe"
              /\ payload' = [mimeType |-> NormalizedAudioMime(a.mimeType.s),
                             data |-> Trim(a.data.s)]
              /\ EnterChain(getCandidateModels(env))

S_webm == <<97, 117, 100, 105, 111, 47, 119, 101, 98, 109>>

S_webm_opus == <<97, 117, 100, 105, 111, 47, 119, 101, 98, 109, 59, 99, 111, 100, 101, 99, 115, 61, 111, 112, 117, 115>>

S_webm_spaced == <<32, 65, 117, 100, 105, 111, 47, 87, 101, 98, 77, 32, 59, 32, 99, 111, 100, 101, 99, 115, 61, 111, 112, 117, 115, 32>>

Audios ==
    { Audio("object", JStr(S_base64), JStr(S_webm)),
      Audio("object", JStr(S_base64), JStr(S_webm_opus)),
      Audio("object", JStr(S_base64), JStr(S_webm_spaced)),
      Audio("object", JStr(S_base64), JStr(S_plain)),
      Audio("object", JStr(S_base64), JStr(STR_AUDIO_SLASH)),
      Audio("object", JStr(<<32>>), JStr(S_webm)),
      Audio("object", JStr(S_base64), JUndef),
      Audio("string", JUndef, JUndef),
      NoAudio }

StartTranscribe ==
    /\ pc \in {"idle", "done"}
    /\ \E a \in Audios : CallTranscribe(a)
    /\ UNCHANGED <<env, model, modelName, input, parsed, diag, translation, outcome>>
    /\ UNCHANGED waitVars
    /\ UNCHANGED <<pureVars, http>>
    /\ UNCHANGED <<sharedVars, clientVars>>

\* the transcription call has ended: lines 733-735, then the detection call
TranscribeReturn ==
    /\ pc = "transcribe"
    /\ LoopEnded
    /\ LET r == ChainResult IN
       IF ~ r.ok
         THEN /\ heard' = Heard("thrown", <<>>, <<>>, r.err)
              /\ pc' = "done"
              /\ UNCHANGED <<symptomsText, spokenCode, firstCode, cands, idx, looping,
                             lastError, result, calls>>
         ELSE /\ symptomsText' = StringField(r.value, K_symptomsText)
              /\ spokenCode' = TranscriptionCode(r.value)
              /\ firstCode' = TranscriptionCode(r.value)
              /\ heard' = NoHeard
              /\ pc' = "detect"
              /\ EnterChain(getCandidateModels(env))
    /\ UNCHANGED <<audio, resolvedCode, detection>>
    /\ UNCHANGED <<env, model, modelName, input, payload, parsed, diag, translation, outcome>>
    /\ UNCHANGED waitVars
    /\ UNCHANGED <<pureVars, http>>
    /\ UNCHANGED <<sharedVars, clientVars>>

\* the detection call has ended: the rest of transcribeSymptomsFromAudio
DetectReturn ==
    /\ pc = "detect"
    /\ LoopEnded
    /\ LET r == ChainResult
           thrown == IF r.ok THEN NoError ELSE SwallowDetectionError(r.err)
           code == IF r.ok THEN DetectedCode(spokenCode, r.value) ELSE spokenCode
       IN /\ detection' = IF ~ r.ok THEN "failed"
                          ELSE IF code = DetectedCode(<<>>, r.value) THEN "applied"
                          ELSE "unsupported"
          /\ resolvedCode' = code
          /\ spokenCode' = ScriptCorrection(code, symptomsText)
          /\ heard' = IF thrown # NoError THEN Heard("thrown", <<>>, <<>>, thrown)
                      ELSE FinishTranscription(symptomsText,
                                               ScriptCorrection(code, symptomsText))
    /\ pc' = "done"
    /\ UNCHANGED <<audio, symptomsText, firstCode>>
    /\ UNCHANGED <<env, model, modelName, input, payload, cands, idx, looping,
                   lastError, result, calls, parsed, diag, translation, outcome>>
    /\ UNCHANGED waitVars
    /\ UNCHANGED <<pureVars, http>>
    /\ UNCHANGED <<sharedVars, clientVars>>

NextAudio == StartTranscribe \/ Attempt \/ TranscribeReturn \/ DetectReturn

(***************************************************************************)
(* Wait times: names and fuzzy matching (scraperService.js)                *)
(***************************************************************************)
\* [a-z0-9\s]: what normalizeName keeps of a lower-cased name
IsNameChar(c) == (c >= 97 /\ c <= 122) \/ (c >= 48 /\ c <= 57) \/ IsSpace(c)

\* .replace(/[^a-z0-9\s]/g, '')
RECURSIVE KeepNameChars(_)
KeepNameChars(s) ==
    IF s = <<>> THEN <<>>
    ELSE IF IsNameChar(Head(s)) THEN <<Head(s)>> \o KeepNameChars(Tail(s))
    ELSE KeepNameChars(Tail(s))

\* .replace(/\s+/g, ' ')
RECURSIVE CollapseSpaces(_)
CollapseSpaces(s) ==
    IF s = <<>> THEN <<>>
    ELSE IF IsSpace(Head(s))
      THEN <<32>> \o CollapseSpaces(TrimLeft(Tail(s)))
      ELSE <<Head(s)>> \o CollapseSpaces(Tail(s))

normalizeName(name) == Trim(CollapseSpaces(KeepNameChars(ToLowerCase(name))))

\* String.prototype.split(' ')
RECURSIVE SplitSpace(_)
SplitSpace(s) ==
    IF \E i \in 1..Len(s) : s[i] = 32
      THEN LET i == CHOOSE k \in 1..Len(s) : s[k] = 32 /\ \A j \in 1..(k - 1) : s[j] # 32
           IN <<SubSeq(s, 1, i - 1)>> \o SplitSpace(SubSeq(s, i + 1, Len(s)))
      ELSE <<s>>

\* new Set(a.split(' ').filter((w) => w.length > 2))
WordSet(a) == {w \in {SplitSpace(a)[i] : i \in 1..Len(SplitSpace(a))} : Len(w) > 2}

\* overlapScore as the fraction [num, den]; 0 is [0, 1]
overlapScore(a, b) ==
    LET wordsA == WordSet(a)
        wordsB == WordSet(b)
        sizeA == Cardinality(wordsA)
        sizeB == Cardinality(wordsB)
    IN IF sizeA = 0 \/ sizeB = 0 THEN [num |-> 0, den |-> 1]
       ELSE [num |-> Cardinality(wordsA \cap wordsB),
             den |-> IF sizeA >= sizeB THEN sizeA ELSE sizeB]

\* x > y on fractions with positive denominators
FracGreater(x, y) == x.num * y.den > y.num * x.den

\* a Map is the sequence of its [key, minutes] entries in insertion order
MapHas(m, key) == \E i \in 1..Len(m) : m[i].key = key

MapGet(m, key) == m[CHOOSE i \in 1..Len(m) : m[i].key = key].minutes

\* Map.prototype.set: an existing key keeps its place
MapSet(m, key, minutes) ==
    IF MapHas(m, key)
      THEN [i \in 1..Len(m) |-> IF m[i].key = key THEN [key |-> key, minutes |-> minutes]
                                 ELSE m[i]]
      ELSE Append(m, [key |-> key, minutes |-> minutes])

\* variant: a score of one half is enough
Improves_AtLeastHalf(score, bestScore) ==
    /\ FracGreater(score, bestScore)
    /\ ~ FracGreater([num |-> 1, den |-> 2], score)

\* score > bestScore && score > 0.5
Improves(score, bestScore) ==
    /\ FracGreater(score, bestScore)
    /\ FracGreater(score, [num |-> 1, den |-> 2])

\* the loop of fuzzyMatch over the entries from the i-th on
RECURSIVE BestOverlap(_, _, _, _, _)
BestOverlap(normalized, m, i, bestMatch, bestScore) ==
    IF i > Len(m) THEN bestMatch
    ELSE LET score == overlapScore(normalized, m[i].key) IN
         IF Improves(score, bestScore)
           THEN BestOverlap(normalized, m, i + 1, JNum(2 * m[i].minutes), score)
           ELSE BestOverlap(normalized, m, i + 1, bestMatch, bestScore)

\* fuzzyMatch: the minutes as a number, or null
fuzzyMatch(hospitalName, waitTimesMap) ==
    LET normalized == normalizeName(hospitalName) IN
    IF MapHas(waitTimesMap, normalized)
      THEN JNum(2 * MapGet(waitTimesMap, normalized))
      ELSE BestOverlap(normalized, waitTimesMap, 1, JNull, [num |-> 0, den |-> 1])

(***************************************************************************)
(* Wait times: the known system's page                                     *)
(***************************************************************************)
\* parseInt(s, 10) of a string: leading white space, a sign, the leading digits
LeadingDigits(s) ==
    IF s = <<>> \/ ~ (s[1] >= 48 /\ s[1] <= 57) THEN <<>>
    ELSE LET n == CHOOSE k \in 1..Len(s) :
                      /\ \A j \in 1..k : s[j] >= 48 /\ s[j] <= 57
                      /\ (k = Len(s) \/ ~ (s[k + 1] >= 48 /\ s[k + 1] <= 57))
         IN SubSeq(s, 1, n)

ParseIntString(s) ==
    LET t == TrimLeft(s)
        negative == t # <<>> /\ t[1] = 45
        unsigned == IF t # <<>> /\ t[1] \in {43, 45} THEN Tail(t) ELSE t
        digits == LeadingDigits(unsigned)
    IN IF digits = <<>> THEN JNaN
       ELSE JNum(2 * (IF negative THEN 0 - DigitsValue(digits) ELSE DigitsValue(digits)))

\* parseInt(x, 10): a number goes through its decimal string, which truncates
ParseInt(x) ==
    CASE x.t = "string" -> ParseIntString(x.s)
      [] x.t = "number" -> IF x.n >= 0 THEN JNum(2 * (x.n \div 2))
                           ELSE JNum(0 - 2 * ((0 - x.n) \div 2))
      [] OTHER -> JNaN

\* the truthiness of a scalar
Truthy(x) ==
    CASE x.t = "string" -> x.s # <<>>
      [] x.t = "number" -> x.n # 0
      [] x.t = "boolean" -> x.n = 1
      [] x.t = "object" -> TRUE
      [] OTHER -> FALSE

\* one element of a paragraph's array: isObject is FALSE for null, name is
\* entry.location?.name and wt is entry.waitTime
Entry(isObject, name, wt) == [isObject |-> isObject, name |-> name, wt |-> wt]

\* the page: whether it holds the drupal-settings-json script, whether the
\* script parses, whether settings.waitTimes is there, and, per paragraph id,
\* its array of entries (isArray FALSE: some other value)
InovaPage(marker, jsonOk, hasWaitTimes, paragraphs) ==
    [marker |-> marker, jsonOk |-> jsonOk, hasWaitTimes |-> hasWaitTimes,
     paragraphs |-> paragraphs]

Paragraph(isArray, entries) == [isArray |-> isArray, entries |-> entries]

\* variant: negative minutes are stored too
AcceptMinutes_AnyNumber(minutes) == minutes.t = "number"

\* !isNaN(minutes) && minutes >= 0
AcceptMinutes(minutes) == minutes.t = "number" /\ minutes.n >= 0

\* the inner loop over the entries of one paragraph: [map, threw]
RECURSIVE ParseEntries(_, _, _)
ParseEntries(entries, i, waitTimes) ==
    IF i > Len(entries) THEN [map |-> waitTimes, threw |-> FALSE]
    ELSE LET entry == entries[i]
             minutes == ParseInt(entry.wt)
         IN IF ~ entry.isObject THEN [map |-> waitTimes, threw |-> TRUE]
            ELSE IF Truthy(entry.name) /\ entry.wt.t \notin {"null", "undefined"}
                    /\ entry.wt # JStr(<<>>)
              THEN IF AcceptMinutes(minutes)
                     THEN IF entry.name.t # "string"
                            THEN \* normalizeName throws on a name that is no string
                                 [map |-> waitTimes, threw |-> TRUE]
                            ELSE ParseEntries(entries, i + 1,
                                     MapSet(waitTimes, normalizeName(entry.name.s),
                                            minutes.n \div 2))
                     ELSE ParseEntries(entries, i + 1, waitTimes)
              ELSE ParseEntries(entries, i + 1, waitTimes)

\* the outer loop over the paragraph ids; a throw ends it in the catch
RECURSIVE ParseParagraphs(_, _, _)
ParseParagraphs(paragraphs, i, waitTimes) ==
    IF i > Len(paragraphs) THEN waitTimes
    ELSE IF ~ paragraphs[i].isArray THEN ParseParagraphs(paragraphs, i + 1, waitTimes)
    ELSE LET r == ParseEntries(paragraphs[i].entries, 1, waitTimes) IN
         IF r.threw THEN r.map ELSE ParseParagraphs(paragraphs, i + 1, r.map)

parseInovaPage(html) ==
    IF ~ html.marker THEN <<>>
    ELSE IF ~ html.jsonOk THEN <<>>
    ELSE IF ~ html.hasWaitTimes THEN <<>>
    ELSE ParseParagraphs(html.paragraphs, 1, <<>>)

(***************************************************************************)
(* Wait times: extraction from a generic page                              *)
(***************************************************************************)
IsDigit(c) == c >= 48 /\ c <= 57

\* whether the literal lit stands in s at index i
At(s, i, lit) == i + Len(lit) - 1 <= Len(s) /\ SubSeq(s, i, i + Len(lit) - 1) = lit

\* \s* from index i: the index after the run of white space
RECURSIVE SkipSpace(_, _)
SkipSpace(s, i) == IF i <= Len(s) /\ IsSpace(s[i]) THEN SkipSpace(s, i + 1) ELSE i

\* [:\s]* from index i
RECURSIVE SkipColonSpace(_, _)
SkipColonSpace(s, i) ==
    IF i <= Len(s) /\ (s[i] = 58 \/ IsSpace(s[i])) THEN SkipColonSpace(s, i + 1) ELSE i

\* the length of the run of digits that starts at index i
RECURSIVE DigitRun(_, _)
DigitRun(s, i) == IF i <= Len(s) /\ IsDigit(s[i]) THEN 1 + DigitRun(s, i + 1) ELSE 0

STR_wait == <<119, 97, 105, 116>>

STR_time == <<116, 105, 109, 101>>

STR_min == <<109, 105, 110>>

STR_ute == <<117, 116, 101>>

STR_estimated == <<101, 115, 116, 105, 109, 97, 116, 101, 100>>

\* (\d{1,3})\s*min from index q of the lower-cased text: the digits must be
\* followed by white space or "min", so a run of more than three never matches
NumMinAt(low, q) ==
    LET d == DigitRun(low, q) IN
    d >= 1 /\ d <= 3 /\ At(low, SkipSpace(low, q + d), STR_min)

\* /wait\s*(?:time)?[:\s]*(\d{1,3})\s*min/i at index p: where the digits start
WaitPatternDigits(low, p) ==
    LET q1 == SkipSpace(low, p + 4)
        q2 == IF At(low, q1, STR_time) THEN q1 + 4 ELSE q1
    IN SkipColonSpace(low, q2)

WaitPatternAt(low, p) == At(low, p, STR_wait) /\ NumMinAt(low, WaitPatternDigits(low, p))

\* /estimated[:\s]*(\d{1,3})\s*min/i at index p
EstimatedPatternDigits(low, p) == SkipColonSpace(low, p + 9)

EstimatedPatternAt(low, p) ==
    At(low, p, STR_estimated) /\ NumMinAt(low, EstimatedPatternDigits(low, p))

\* /(\d{1,3})\s*min(?:ute)?s?\s*(?:wait|estimated)/i at index p
MinutesPatternAt(low, p) ==
    /\ p <= Len(low) /\ IsDigit(low[p])
    /\ NumMinAt(low, p)
    /\ LET q2 == SkipSpace(low, p + DigitRun(low, p)) + 3 IN
       \E u \in {0, 1}, v \in {0, 1} :
          /\ u = 1 => At(low, q2, STR_ute)
          /\ v = 1 => At(low, q2 + 3 * u, <<115>>)
          /\ LET q5 == SkipSpace(low, q2 + 3 * u + v) IN
             At(low, q5, STR_wait) \/ At(low, q5, STR_estimated)

\* the leftmost index of a set of match positions
Leftmost(S) == CHOOSE p \in S : \A q \in S : p <= q

\* match[1] of each pattern as a number, or null when the pattern has no match
WaitPatternGroup(html) ==
    LET low == ToLowerCase(html)
        S == {p \in 1..Len(low) : WaitPatternAt(low, p)}
    IN IF S = {} THEN JNull
       ELSE LET q == WaitPatternDigits(low, Leftmost(S)) IN
            ParseIntString(SubSeq(low, q, q + DigitRun(low, q) - 1))

MinutesPatternGroup(html) ==
    LET low == ToLowerCase(html)
        S == {p \in 1..Len(low) : MinutesPatternAt(low, p)}
    IN IF S = {} THEN JNull
       ELSE LET p == Leftmost(S) IN
            ParseIntString(SubSeq(low, p, p + DigitRun(low, p) - 1))

EstimatedPatternGroup(html) ==
    LET low == ToLowerCase(html)
        S == {p \in 1..Len(low) : EstimatedPatternAt(low, p)}
    IN IF S = {} THEN JNull
       ELSE LET q == EstimatedPatternDigits(low, Leftmost(S)) IN
            ParseIntString(SubSeq(low, q, q + DigitRun(low, q) - 1))

\* mins >= 0 && mins < 500
Plausible(mins) == mins.t = "number" /\ mins.n >= 0 /\ mins.n < 2 * 500

\* extractWaitFromHtml: the first pattern, in order, whose match is plausible
extractWaitFromHtml(html) ==
    LET groups == <<WaitPatternGroup(html), MinutesPatternGroup(html),
                    EstimatedPatternGroup(html)>>
    IN IF \E k \in 1..3 : Plausible(groups[k])
         THEN groups[CHOOSE k \in 1..3 :
                        Plausible(groups[k]) /\ \A j \in 1..(k - 1) : ~ Plausible(groups[j])]
         ELSE JNull

(***************************************************************************)
(* Wait times: the synthetic estimate (waittimeService.js)                 *)
(***************************************************************************)
WAIT_MIN == 15

WAIT_MAX == 90

RECURSIVE SumCharCodes(_)
SumCharCodes(s) == IF s = <<>> THEN 0 ELSE Head(s) + SumCharCodes(Tail(s))

\* Math.round of num/den for num >= 0: halves go up
RoundDiv(num, den) == (2 * num + den) \div (2 * den)

\* variant: the seed is not reduced modulo 233280
generateSyntheticWait_NoModulus(hospitalName, hour) ==
    LET seed == SumCharCodes(hospitalName) + hour
        r == seed * 9301 + 49297
    IN WAIT_MIN + RoundDiv(r * (WAIT_MAX - WAIT_MIN), 233280)

\* generateSyntheticWait, with the hour that new Date().getHours() gives
generateSyntheticWait(hospitalName, hour) ==
    LET seed == SumCharCodes(hospitalName) + hour
        r == (seed * 9301 + 49297) % 233280
    IN WAIT_MIN + RoundDiv(r * (WAIT_MAX - WAIT_MIN), 233280)

(***************************************************************************)
(* Wait times: one hospital's lookup (scrapeWaitTime, getWaitTimes)        *)
(***************************************************************************)
CACHE_TTL_MS == 5 * 60 * 1000

STR_inova == <<105, 110, 111, 118, 97>>

\* KNOWN_SYSTEMS[0].pattern.test(hospitalName), /inova/i
IsKnownSystem(hospitalName) == Includes(ToLowerCase(hospitalName), STR_inova)

STR_http == <<104, 116, 116, 112, 58, 47, 47>>

STR_https == <<104, 116, 116, 112, 115, 58, 47, 47>>

\* whether new URL(url) succeeds, for the absolute http(s) urls and the
\* scheme-less strings that a website field holds
UrlParses(url) ==
    \/ At(url, 1, STR_http) /\ Len(url) > Len(STR_http)
    \/ At(url, 1, STR_https) /\ Len(url) > Len(STR_https)

\* new Date().getHours(); local time is taken to be UTC
Hour(ms) == (ms \div 3600000) % 24

Hospital(name, website, placeId) == [name |-> name, website |-> website, placeId |-> placeId]

NoCache == [present |-> FALSE, data |-> <<>>, timestamp |-> 0]

CacheFresh_Inclusive(c, ms) == c.present /\ ms - c.timestamp <= CACHE_TTL_MS

\* cached && Date.now() - cached.timestamp < CACHE_TTL_MS
CacheFresh(c, ms) == c.present /\ ms - c.timestamp < CACHE_TTL_MS

NoUse == [data |-> <<>>, html |-> <<>>]

\* a callback before its first step.  scraped is what scrapeWaitTime returned;
\* source, used and hour record where the value came from; fetched and
\* allFailed record whether it issued a fetch and whether every one failed;
\* wrote, got and gotAt record the data its own fetchWithCache parsed and the
\* time at which it stored them; probes counts the fetches of scrapeGenericSite
NewTask ==
    [pc |-> "new", path |-> 0, scraped |-> JNull, source |-> "none", used |-> NoUse,
     hour |-> 0, fetched |-> FALSE, allFailed |-> TRUE,
     wrote |-> FALSE, got |-> <<>>, gotAt |-> 0, probes |-> 0]

\* scrapeWaitTime returns value, and the callback goes on to its end
Finish(t, value, source, used, ms) ==
    [t EXCEPT !.pc = "done", !.path = 0, !.scraped = value,
              !.source = IF value.t = "null" THEN "synthetic" ELSE source,
              !.used = IF value.t = "null" THEN NoUse ELSE used,
              !.hour = Hour(ms)]

WAIT_PATHS == 4

\* step 2 of scrapeWaitTime up to the first fetch of scrapeGenericSite
StartGeneric(h, t, ms) ==
    IF Truthy(h.website)
      THEN IF h.website.t = "string" /\ UrlParses(h.website.s)
             THEN [t EXCEPT !.pc = "generic", !.path = 1, !.fetched = TRUE, !.probes = 1]
             ELSE Finish(t, JNull, "none", NoUse, ms)
      ELSE Finish(t, JNull, "none", NoUse, ms)

\* scrapeGenericSite after a path that gave no minutes: the next path or null
NextPath_GivesUp(h, t, ms) == Finish(t, JNull, "none", NoUse, ms)

NextPath(h, t, ms) ==
    IF t.path < WAIT_PATHS THEN [t EXCEPT !.path = @ + 1, !.probes = @ + 1]
    ELSE Finish(t, JNull, "none", NoUse, ms)

\* variant: a known system without a match ends the lookup
AfterKnown_StopsOnMiss(h, t, data, ms) ==
    LET match == fuzzyMatch(h.name, data) IN
    IF match.t # "null" THEN Finish(t, match, "known", [NoUse EXCEPT !.data = data], ms)
    ELSE Finish(t, JNull, "none", NoUse, ms)

\* scrapeWaitTime once fetchWithCache has returned the map
AfterKnown(h, t, data, ms) ==
    LET match == fuzzyMatch(h.name, data) IN
    IF match.t # "null" THEN Finish(t, match, "known", [NoUse EXCEPT !.data = data], ms)
    ELSE StartGeneric(h, t, ms)

\* variant: a failed fetch of the known system ends the lookup with 0 minutes
KnownFailed_AsReal(h, t, ms) == Finish(t, JNum(0), "known", NoUse, ms)

\* the catch of step 1: the error is logged and step 2 follows
KnownFailed(h, t, ms) == StartGeneric(h, t, ms)

\* the synchronous start of a callback
BeginTask(h, c, ms) ==
    IF IsKnownSystem(h.name)
      THEN IF CacheFresh(c, ms) THEN AfterKnown(h, NewTask, c.data, ms)
           ELSE [NewTask EXCEPT !.pc = "known", !.fetched = TRUE]
      ELSE StartGeneric(h, NewTask, ms)

\* variant: the website is copied as hospital.website || null
Record_WebsiteOrNull(h, waitTime, estimated) ==
    [name |-> h.name, website |-> IF Truthy(h.website) THEN h.website ELSE JNull,
     placeId |-> h.placeId, waitTime |-> waitTime, waitTimeEstimated |-> estimated]

\* { ...hospital, waitTime, waitTimeEstimated: estimated }
Record(h, waitTime, estimated) ==
    [name |-> h.name, website |-> h.website, placeId |-> h.placeId,
     waitTime |-> waitTime, waitTimeEstimated |-> estimated]

\* variant: if (waitTime) in place of if (waitTime != null)
Enrich_Truthy(h, waitTime, ms) ==
    IF Truthy(waitTime) THEN Record(h, waitTime, FALSE)
    ELSE Record(h, JNum(2 * generateSyntheticWait(h.name, Hour(ms))), TRUE)

\* the end of a callback: the record it returns for what scrapeWaitTime gave
Enrich(h, waitTime, ms) ==
    IF waitTime.t \notin {"null", "undefined"} THEN Record(h, waitTime, FALSE)
    ELSE Record(h, JNum(2 * generateSyntheticWait(h.name, Hour(ms))), TRUE)

(***************************************************************************)
(* Wait times: Promise.all                                                 *)
(***************************************************************************)
NoSlot == [filled |-> FALSE, value |-> Record(Hospital(<<>>, JNull, 0), JNull, FALSE)]

\* variant: the values are collected in the order of completion
Settle_FirstFree(vals, i, v) ==
    LET k == CHOOSE j \in 1..Len(vals) :
                 ~ vals[j].filled /\ \A m \in 1..(j - 1) : vals[m].filled
    IN [vals EXCEPT ![k] = [filled |-> TRUE, value |-> v]]

\* the promise of index i fulfils with v
Settle(vals, i, v) == [vals EXCEPT ![i] = [filled |-> TRUE, value |-> v]]

\* the promises of the callbacks that ended without a fetch, in index order
RECURSIVE SettleDone(_, _, _, _, _)
SettleDone(vals, hs, ts, i, ms) ==
    IF i > Len(ts) THEN vals
    ELSE IF ts[i].pc = "done"
      THEN SettleDone(Settle(vals, i, Enrich(hs[i], ts[i].scraped, ms)), hs, ts, i + 1, ms)
      ELSE SettleDone(vals, hs, ts, i + 1, ms)

AllSettled(vals) == \A i \in 1..Len(vals) : vals[i].filled

\* the rest of a step of callback i: its promise, and with the last one the
\* return of getWaitTimes
Complete(i, t) ==
    /\ tasks' = [tasks EXCEPT ![i] = t]
    /\ LET vals == IF t.pc = "done" THEN Settle(values, i, Enrich(hospitals[i], t.scraped, now))
                   ELSE values
       IN /\ values' = vals
          /\ settled' = IF t.pc = "done" THEN Append(settled, i) ELSE settled
          /\ batch' = IF AllSettled(vals) THEN "returned" ELSE "running"
          /\ results' = IF AllSettled(vals) THEN [k \in 1..Len(vals) |-> vals[k].value]
                        ELSE results

(***************************************************************************)
(* Wait times: bounded inputs                                              *)
(***************************************************************************)
N_Fairfax == <<73, 110, 111, 118, 97, 32, 70, 97, 105, 114, 102, 97, 120, 32, 72, 111, 115, 112, 105, 116, 97, 108>>

N_Loudoun == <<73, 110, 111, 118, 97, 32, 76, 111, 117, 100, 111, 117, 110, 32, 72, 111, 115, 112, 105, 116, 97, 108>>

N_Alexandria == <<73, 110, 111, 118, 97, 32, 65, 108, 101, 120, 97, 110, 100, 114, 105, 97, 32, 72, 111, 115, 112, 105, 116, 97, 108>>

W_example == JStr(<<104, 116, 116, 112, 115, 58, 47, 47, 101, 120, 97, 109, 112, 108, 101, 46, 111, 114, 103, 47, 101, 114>>)

H_Fairfax == Hospital(N_Fairfax, JUndef, 1)

H_Loudoun == Hospital(<<73, 78, 79, 86, 65, 32, 76, 111, 117, 100, 111, 117, 110>>, W_example, 2)

H_General == Hospital(<<71, 101, 110, 101, 114, 97, 108, 32, 72, 111, 115, 112, 105, 116, 97, 108>>, W_example, 3)

H_Clinic == Hospital(<<67, 108, 105, 110, 105, 99>>, JUndef, 4)

H_BadUrl == Hospital(<<71, 101, 110, 101, 114, 97, 108, 32, 72, 111, 115, 112, 105, 116, 97, 108>>, JStr(<<110, 111, 116, 32, 97, 32, 117, 114, 108>>), 5)

H_Campus == Hospital(<<73, 110, 111, 118, 97, 32, 70, 97, 105, 114, 102, 97, 120, 32, 77, 101, 100, 105, 99, 97, 108, 32, 67, 97, 109, 112, 117, 115>>, JStr(<<>>), 6)

Batches ==
    { <<>>, <<H_Fairfax>>, <<H_General>>, <<H_Clinic, H_General>>,
      <<H_Fairfax, H_Loudoun>>, <<H_Clinic, H_General, H_Fairfax>>,
      <<H_Campus, H_BadUrl>> }

PageFull ==
    InovaPage(TRUE, TRUE, TRUE,
      << Paragraph(TRUE, << Entry(TRUE, JStr(N_Fairfax), JNum(2 * 12)),
                            Entry(TRUE, JStr(N_Loudoun), JStr(<<52, 53>>)),
                            Entry(TRUE, JStr(N_Alexandria), JStr(<<>>)) >>) >>)

PageZero ==
    InovaPage(TRUE, TRUE, TRUE,
      << Paragraph(TRUE, << Entry(TRUE, JStr(N_Fairfax), JNum(0)),
                            Entry(TRUE, JStr(N_Loudoun), JStr(<<45, 53>>)),
                            Entry(TRUE, JUndef, JNum(2 * 20)),
                            Entry(TRUE, JStr(N_Alexandria), JStr(<<115, 111, 111, 110>>)) >>) >>)

\* a paragraph that is no array, a fractional value, then a null entry
PagePartial ==
    InovaPage(TRUE, TRUE, TRUE,
      << Paragraph(FALSE, <<>>),
         Paragraph(TRUE, << Entry(TRUE, JStr(N_Fairfax), JNum(15)),
                            Entry(FALSE, JUndef, JUndef),
                            Entry(TRUE, JStr(N_Loudoun), JNum(2 * 30)) >>) >>)

PageNoMarker == InovaPage(FALSE, FALSE, FALSE, <<>>)

PageBadJson == InovaPage(TRUE, FALSE, FALSE, <<>>)

PageNoWaitTimes == InovaPage(TRUE, TRUE, FALSE, <<>>)

InovaPages == {PageFull, PageZero, PagePartial, PageNoMarker, PageBadJson, PageNoWaitTimes}

HtmlPages ==
    { <<69, 82, 32, 119, 97, 105, 116, 32, 116, 105, 109, 101, 58, 32, 50, 53, 32, 109, 105, 110>>, <<87, 97, 105, 116, 32, 54, 48, 48, 32, 109, 105, 110, 44, 32, 101, 115, 116, 105, 109, 97, 116, 101, 100, 58, 32, 52, 53, 32, 109, 105, 110>>,
      <<48, 32, 109, 105, 110, 117, 116, 101, 115, 32, 119, 97, 105, 116>>, <<67, 97, 108, 108, 32, 117, 115>> }

\* what a fetch can come to: a rejection (network error or the abort of
\* AbortSignal.timeout), a response that is not ok, or an ok response and its
\* text
Response(kind, page, html) == [kind |-> kind, page |-> page, html |-> html]

Failures ==
    {Response(k, PageNoMarker, <<>>) : k \in {"error", "timeout", "status"}}

KnownResponses == Failures \cup {Response("ok", pg, <<>>) : pg \in InovaPages}

GenericResponses == Failures \cup {Response("ok", PageNoMarker, html) : html \in HtmlPages}

MaxTicks == 3

TickMs == 150 * 1000

\* two ticks before 10:00
StartMs == 10 * 3600000 - 2 * TickMs

(***************************************************************************)
(* Wait times: the operations                                              *)
(***************************************************************************)
InitWait ==
    /\ cache = NoCache
    /\ now = StartMs
    /\ hospitals = <<>>
    /\ tasks = <<>>
    /\ values = <<>>
    /\ settled = <<>>
    /\ batch = "idle"
    /\ results = <<>>

\* getWaitTimes(hs) up to its first suspension: every callback runs to its
\* first fetch or, without one, to its end
StartBatch ==
    /\ batch \in {"idle", "returned"}
    /\ \E hs \in Batches :
         LET ts == [i \in 1..Len(hs) |-> BeginTask(hs[i], cache, now)]
             vals == SettleDone([i \in 1..Len(hs) |-> NoSlot], hs, ts, 1, now)
         IN /\ hospitals' = hs
            /\ tasks' = ts
            /\ values' = vals
            /\ settled' = SelectSeq([i \in 1..Len(hs) |-> i], LAMBDA i : ts[i].pc = "done")
            /\ batch' = IF AllSettled(vals) THEN "returned" ELSE "running"
            /\ results' = IF AllSettled(vals) THEN [k \in 1..Len(vals) |-> vals[k].value]
                          ELSE <<>>
    /\ UNCHANGED <<cache, now>>
    /\ UNCHANGED llmVars
    /\ UNCHANGED audioVars
    /\ UNCHANGED <<pureVars, http>>
    /\ UNCHANGED <<sharedVars, clientVars>>

\* cache.set(url, { data, timestamp: Date.now() })
CacheSet(data, ms) == [present |-> TRUE, data |-> data, timestamp |-> ms]

\* variant: a failed fetch stamps the entry it found
CacheAfter_StampsFailure(c, r, ms) ==
    IF r.kind = "ok" THEN CacheSet(parseInovaPage(r.page), ms)
    ELSE [c EXCEPT !.present = TRUE, !.timestamp = ms]

\* variant: an entry that another call refreshed meanwhile is kept
CacheAfter_KeepsFresh(c, r, ms) ==
    IF r.kind # "ok" \/ CacheFresh(c, ms) THEN c
    ELSE CacheSet(parseInovaPage(r.page), ms)

\* the cache once the fetch of fetchWithCache has come to r: a rejection or a
\* response that is not ok throws before cache.set, an ok response is parsed
\* and stored
CacheAfter(c, r, ms) ==
    IF r.kind = "ok" THEN CacheSet(parseInovaPage(r.page), ms)
    ELSE c

\* the fetch of fetchWithCache for callback i comes to r
KnownFetchDone ==
    /\ batch = "running"
    /\ \E i \in 1..Len(tasks) :
         /\ tasks[i].pc = "known"
         /\ \E r \in KnownResponses :
              IF r.kind = "ok"
                THEN LET data == parseInovaPage(r.page) IN
                     /\ cache' = CacheAfter(cache, r, now)
                     /\ Complete(i, AfterKnown(hospitals[i],
                                               [tasks[i] EXCEPT !.allFailed = FALSE,
                                                                !.wrote = TRUE,
                                                                !.got = data,
                                                                !.gotAt = now],
                                               data, now))
                ELSE /\ cache' = CacheAfter(cache, r, now)
                     /\ Complete(i, KnownFailed(hospitals[i], tasks[i], now))
    /\ UNCHANGED <<now, hospitals>>
    /\ UNCHANGED llmVars
    /\ UNCHANGED audioVars
    /\ UNCHANGED <<pureVars, http>>
    /\ UNCHANGED <<sharedVars, clientVars>>

\* the fetch of the current path of scrapeGenericSite for callback i comes to r
GenericFetchDone ==
    /\ batch = "running"
    /\ \E i \in 1..Len(tasks) :
         /\ tasks[i].pc = "generic"
         /\ \E r \in GenericResponses :
              IF r.kind = "ok"
                THEN LET minutes == extractWaitFromHtml(r.html)
                         t == [tasks[i] EXCEPT !.allFailed = FALSE]
                     IN IF minutes.t # "null"
                          THEN Complete(i, Finish(t, minutes, "generic",
                                                  [NoUse EXCEPT !.html = r.html], now))
                          ELSE Complete(i, NextPath(hospitals[i], t, now))
                ELSE Complete(i, NextPath(hospitals[i], tasks[i], now))
    /\ UNCHANGED <<cache, now, hospitals>>
    /\ UNCHANGED llmVars
    /\ UNCHANGED audioVars
    /\ UNCHANGED <<pureVars, http>>
    /\ UNCHANGED <<sharedVars, clientVars>>

\* time passes
Tick ==
    /\ now < StartMs + MaxTicks * TickMs
    /\ now' = now + TickMs
    /\ UNCHANGED <<cache, hospitals, tasks, values, settled, batch, results>>
    /\ UNCHANGED llmVars
    /\ UNCHANGED audioVars
    /\ UNCHANGED <<pureVars, http>>
    /\ UNCHANGED <<sharedVars, clientVars>>

NextWait == StartBatch \/ KnownFetchDone \/ GenericFetchDone \/ Tick

(***************************************************************************)
(* The pure functions, applied to arguments drawn from bounded sets        *)
(***************************************************************************)
(***************************************************************************)
(* The controllers of POST /transcribe-audio and POST /diagnose            *)
(***************************************************************************)
\* alerts counts the calls of sendEmergencyAlert, json holds the members of
\* the answer of a successful request
Http(route, body, user, phase, status, error, invoked, notified, alerts, json) ==
    [route |-> route, body |-> body, user |-> user, phase |-> phase,
     status |-> status, error |-> error, invoked |-> invoked, notified |-> notified,
     alerts |-> alerts, json |-> json]

\* the members of res.json(...) of a successful request; <<>> and JUndef for
\* the members the route does not send
Json(condition, severity, reasoning, languageCode, transcript) ==
    [condition |-> condition, severity |-> severity, reasoning |-> reasoning,
     languageCode |-> languageCode, symptomsText |-> transcript]

NoJson == Json(<<>>, JUndef, <<>>, <<>>, <<>>)

\* req.user and what User.findById gives for it
User(loggedIn, found, contactEmail) ==
    [loggedIn |-> loggedIn, found |-> found, contactEmail |-> contactEmail]

NoUser == User(FALSE, FALSE, FALSE)

NoBody == [none |-> TRUE]

NoHttp == Http("none", NoBody, NoUser, "none", 0, "", FALSE, FALSE, 0, NoJson)

\* res.status(400).json({ error }) before the service is called
Rejected(route, body, user, error) ==
    Http(route, body, user, "answered", 400, error, FALSE, FALSE, 0, NoJson)

\* the service has been called and the handler awaits it
Pending(route, body, user) ==
    Http(route, body, user, "pending", 0, "", TRUE, FALSE, 0, NoJson)

\* the locals of the previous invocation of a service are gone
FreshChain ==
    /\ payload' = NoAttachment
    /\ cands' = <<>>
    /\ idx' = 1
    /\ looping' = FALSE
    /\ lastError' = NoError
    /\ result' = <<>>
    /\ calls' = <<>>

FreshDiagnosis ==
    /\ input' = NoRequest
    /\ parsed' = PScalar(JUndef)
    /\ diag' = NoDiagnosis
    /\ translation' = "none"
    /\ outcome' = NoOutcome

FreshAudio ==
    /\ audio' = NoAudio
    /\ symptomsText' = <<>>
    /\ spokenCode' = <<>>
    /\ firstCode' = <<>>
    /\ resolvedCode' = <<>>
    /\ detection' = "none"
    /\ heard' = NoHeard

\* no service is called
NoService ==
    /\ pc' = "idle"
    /\ FreshChain
    /\ FreshDiagnosis
    /\ FreshAudio

TranscribeBody(audioData, audioMimeType) ==
    [audioData |-> audioData, audioMimeType |-> audioMimeType]

\* variant: the MIME type is not looked at
validateAudio_AnyMime(audioData, audioMimeType) ==
    IF ~ Truthy(audioData) \/ ~ Truthy(audioMimeType)
      THEN [error |-> "audioData and audioMimeType are required", audio |-> NoAudio]
    ELSE IF audioData.t # "string" \/ audioMimeType.t # "string"
      THEN [error |-> "audioData and audioMimeType must be strings", audio |-> NoAudio]
    ELSE IF Trim(audioData.s) = <<>>
      THEN [error |-> "audioData must be non-empty", audio |-> NoAudio]
    ELSE [error |-> "",
          audio |-> Audio("object", JStr(Trim(audioData.s)),
                          JStr(NormalizedAudioMime(audioMimeType.s)))]

validateAudio(audioData, audioMimeType) ==
    IF ~ Truthy(audioData) \/ ~ Truthy(audioMimeType)
      THEN [error |-> "audioData and audioMimeType are required", audio |-> NoAudio]
    ELSE IF audioData.t # "string" \/ audioMimeType.t # "string"
      THEN [error |-> "audioData and audioMimeType must be strings", audio |-> NoAudio]
    ELSE IF ~ IsAudioMime(NormalizedAudioMime(audioMimeType.s))
      THEN [error |-> "audioMimeType must be a valid audio MIME type", audio |-> NoAudio]
    ELSE IF Trim(audioData.s) = <<>>
      THEN [error |-> "audioData must be non-empty", audio |-> NoAudio]
    ELSE [error |-> "",
          audio |-> Audio("object", JStr(Trim(audioData.s)),
                          JStr(NormalizedAudioMime(audioMimeType.s)))]

\* variant: the status of the error is not looked at
StatusOf_Always503(err) == 503

\* Number.isInteger(err?.statusCode) ? err.statusCode : 503
StatusOf(err) == IF err.statusCode # 0 THEN err.statusCode ELSE 503

S_video == <<118, 105, 100, 101, 111, 47, 109, 112, 52>>

TranscribeBodies ==
    { TranscribeBody(JUndef, JUndef),
      TranscribeBody(JStr(S_base64), JUndef),
      TranscribeBody(JUndef, JStr(S_webm)),
      TranscribeBody(JStr(<<>>), JStr(S_webm)),
      TranscribeBody(JNull, JStr(S_webm)),
      TranscribeBody(JNum(2), JStr(S_webm)),
      TranscribeBody(JStr(<<32>>), JStr(S_webm)),
      TranscribeBody(JStr(S_base64), JStr(S_plain)),
      TranscribeBody(JStr(S_base64), JStr(S_video)),
      TranscribeBody(JStr(S_base64), JStr(STR_AUDIO_SLASH)),
      TranscribeBody(JStr(S_base64), JStr(S_webm)),
      TranscribeBody(JStr(S_base64), JStr(S_webm_opus)),
      TranscribeBody(JStr(S_base64), JStr(S_webm_spaced)) }

\* transcribeAudio up to the call of the service
PostTranscribeAudio ==
    /\ pc \in {"idle", "done"}
    /\ http.phase # "pending"
    /\ \E b \in TranscribeBodies :
         LET validation == validateAudio(b.audioData, b.audioMimeType) IN
         IF validation.error # ""
           THEN /\ http' = Rejected("transcribe-audio", b, NoUser, validation.error)
                /\ NoService
           ELSE /\ http' = Pending("transcribe-audio", b, NoUser)
                /\ CallTranscribe(validation.audio)
                /\ FreshDiagnosis
    /\ UNCHANGED <<env, model, modelName>>
    /\ UNCHANGED <<waitVars, pureVars>>
    /\ UNCHANGED <<sharedVars, clientVars>>

\* transcribeAudio after the service has settled
TranscribeRespond ==
    /\ http.route = "transcribe-audio"
    /\ http.phase = "pending"
    /\ pc = "done"
    /\ http' = [http EXCEPT !.phase = "answered",
                            !.status = IF heard.kind = "returned" THEN 200
                                       ELSE StatusOf(heard.err),
                            !.error = IF heard.kind = "returned" THEN ""
                                      ELSE "transcription_failure",
                            !.json = IF heard.kind = "returned"
                                       THEN Json(<<>>, JUndef, <<>>, heard.languageCode,
                                                 heard.symptomsText)
                                       ELSE NoJson]
    /\ NoService
    /\ UNCHANGED <<env, model, modelName>>
    /\ UNCHANGED <<waitVars, pureVars>>
    /\ UNCHANGED <<sharedVars, clientVars>>

\* the symptoms member of a body: t is "undefined", "null", "string", "array"
\* or another typeof
Sym(t, s, items) == [t |-> t, s |-> s, items |-> items]

DiagnoseBody(symptoms, imageData, imageMimeType, languageCode) ==
    [symptoms |-> symptoms, imageData |-> imageData, imageMimeType |-> imageMimeType,
     languageCode |-> languageCode]

\* symptoms.map((s) => s.trim()).filter(Boolean)
NormalizedItems(items) == TrimAndFilter([i \in 1..Len(items) |-> items[i].s])

Symptoms(error, normalized) == [error |-> error, normalized |-> normalized]

\* variant: a string is not taken for a list of one symptom
validateSymptoms_ArrayOnly(symptoms, allowEmpty) ==
    IF symptoms.t \in {"undefined", "null"}
      THEN IF allowEmpty THEN Symptoms("", <<>>) ELSE Symptoms("symptoms required", <<>>)
    ELSE IF symptoms.t # "array"
      THEN Symptoms("symptoms must be a string or an array of strings", <<>>)
    ELSE IF Len(symptoms.items) < 1
      THEN Symptoms("symptoms must contain at least one item", <<>>)
    ELSE IF \E i \in 1..Len(symptoms.items) : symptoms.items[i].t # "string"
      THEN Symptoms("symptoms must contain only strings", <<>>)
    ELSE IF NormalizedItems(symptoms.items) = <<>>
      THEN IF allowEmpty THEN Symptoms("", <<>>)
           ELSE Symptoms("symptoms must contain at least one non-empty string", <<>>)
    ELSE Symptoms("", NormalizedItems(symptoms.items))

\* variant: an array with an element that is not a string passes
validateSymptoms_AnyElement(symptoms, allowEmpty) ==
    IF symptoms.t \in {"undefined", "null"}
      THEN IF allowEmpty THEN Symptoms("", <<>>) ELSE Symptoms("symptoms required", <<>>)
    ELSE IF symptoms.t = "string"
      THEN IF Trim(symptoms.s) = <<>>
             THEN IF allowEmpty THEN Symptoms("", <<>>)
                  ELSE Symptoms("symptoms must contain at least one non-empty string", <<>>)
             ELSE Symptoms("", <<Trim(symptoms.s)>>)
    ELSE IF symptoms.t # "array"
      THEN Symptoms("symptoms must be a string or an array of strings", <<>>)
    ELSE IF Len(symptoms.items) < 1
      THEN Symptoms("symptoms must contain at least one item", <<>>)
    ELSE Symptoms("", NormalizedItems(SelectSeq(symptoms.items, LAMBDA x : x.t = "string")))

validateSymptoms(symptoms, allowEmpty) ==
    IF symptoms.t \in {"undefined", "null"}
      THEN IF allowEmpty THEN Symptoms("", <<>>) ELSE Symptoms("symptoms required", <<>>)
    ELSE IF symptoms.t = "string"
      THEN IF Trim(symptoms.s) = <<>>
             THEN IF allowEmpty THEN Symptoms("", <<>>)
                  ELSE Symptoms("symptoms must contain at least one non-empty string", <<>>)
             ELSE Symptoms("", <<Trim(symptoms.s)>>)
    ELSE IF symptoms.t # "array"
      THEN Symptoms("symptoms must be a string or an array of strings", <<>>)
    ELSE IF Len(symptoms.items) < 1
      THEN Symptoms("symptoms must contain at least one item", <<>>)
    ELSE IF \E i \in 1..Len(symptoms.items) : symptoms.items[i].t # "string"
      THEN Symptoms("symptoms must contain only strings", <<>>)
    ELSE IF NormalizedItems(symptoms.items) = <<>>
      THEN IF allowEmpty THEN Symptoms("", <<>>)
           ELSE Symptoms("symptoms must contain at least one non-empty string", <<>>)
    ELSE Symptoms("", NormalizedItems(symptoms.items))

\* x !== undefined && x !== null && String(x).trim() !== ''
HasValue(x) ==
    /\ x.t \notin {"undefined", "null"}
    /\ x.t = "string" => Trim(x.s) # <<>>

validateOptionalImage(imageData, imageMimeType) ==
    IF ~ HasValue(imageData) /\ ~ HasValue(imageMimeType)
      THEN [error |-> "", image |-> NoImage]
    ELSE IF ~ HasValue(imageData) \/ ~ HasValue(imageMimeType)
      THEN [error |-> "imageData and imageMimeType are required together", image |-> NoImage]
    ELSE IF imageData.t # "string" \/ imageMimeType.t # "string"
      THEN [error |-> "imageData and imageMimeType must be strings", image |-> NoImage]
    ELSE IF ~ IsImageMime(ToLowerCase(Trim(imageMimeType.s)))
      THEN [error |-> "imageMimeType must be a valid image MIME type", image |-> NoImage]
    ELSE [error |-> "",
          image |-> Image("object", JStr(Trim(imageData.s)),
                          JStr(ToLowerCase(Trim(imageMimeType.s))))]

validateLanguageCode_AnyCode(languageCode) ==
    IF languageCode.t \in {"undefined", "null"} \/ languageCode = JStr(<<>>)
      THEN [error |-> "", normalized |-> JNull]
    ELSE IF languageCode.t # "string"
      THEN [error |-> "languageCode must be a string", normalized |-> JNull]
    ELSE IF ToLowerCase(Trim(languageCode.s)) = <<>>
      THEN [error |-> "", normalized |-> JNull]
    ELSE [error |-> "", normalized |-> JStr(ToLowerCase(Trim(languageCode.s)))]

validateLanguageCode(languageCode) ==
    IF languageCode.t \in {"undefined", "null"} \/ languageCode = JStr(<<>>)
      THEN [error |-> "", normalized |-> JNull]
    ELSE IF languageCode.t # "string"
      THEN [error |-> "languageCode must be a string", normalized |-> JNull]
    ELSE IF ToLowerCase(Trim(languageCode.s)) = <<>>
      THEN [error |-> "", normalized |-> JNull]
    ELSE IF ~ IsSupported(ToLowerCase(Trim(languageCode.s)))
      THEN [error |-> "Unsupported language code", normalized |-> JNull]
    ELSE [error |-> "", normalized |-> JStr(ToLowerCase(Trim(languageCode.s)))]

\* variant: exactly one white space between the words
TwoWordsAt_OneSpace(text, i, first, second) ==
    /\ At(text, i, first)
    /\ i + Len(first) <= Len(text)
    /\ IsSpace(text[i + Len(first)])
    /\ At(text, i + Len(first) + 1, second)

\* word \s+ word from index i
TwoWordsAt(text, i, first, second) ==
    /\ At(text, i, first)
    /\ i + Len(first) <= Len(text)
    /\ IsSpace(text[i + Len(first)])
    /\ At(text, SkipSpace(text, i + Len(first)), second)

\* one of UNSAFE_PATTERNS matches from index i
UnsafeAt(text, i) ==
    \/ /\ At(text, i, <<115, 101, 108, 102>>)
       /\ \/ At(text, i + 4, <<104, 97, 114, 109>>)
          \/ /\ i + 4 <= Len(text)
             /\ text[i + 4] \in {45, 32}
             /\ At(text, i + 5, <<104, 97, 114, 109>>)
    \/ At(text, i, <<115, 117, 105, 99, 105, 100, 101>>)
    \/ TwoWordsAt(text, i, <<107, 105, 108, 108>>, <<109, 121, 115, 101, 108, 102>>)
    \/ /\ TwoWordsAt(text, i, <<101, 110, 100>>, <<109, 121>>)
       /\ TwoWordsAt(text, SkipSpace(text, i + 3), <<109, 121>>, <<108, 105, 102, 101>>)
    \/ TwoWordsAt(text, i, <<104, 117, 114, 116>>, <<109, 121, 115, 101, 108, 102>>)

\* isUnsafeInput of an array of strings
isUnsafeInput(symptoms) ==
    LET text == ToLowerCase(JoinSpace(symptoms)) IN
    \E i \in 1..Len(text) : UnsafeAt(text, i)

S_headache == <<104, 101, 97, 100, 97, 99, 104, 101>>

S_unsafe == <<73, 32, 119, 97, 110, 116, 32, 116, 111, 32, 75, 105, 108, 108, 32, 32, 109, 121, 115, 101, 108, 102>>

DiagnoseBodies ==
    { DiagnoseBody(Sym("undefined", <<>>, <<>>), JUndef, JUndef, JUndef),
      DiagnoseBody(Sym("null", <<>>, <<>>), JUndef, JUndef, JUndef),
      DiagnoseBody(Sym("array", <<>>, <<>>), JUndef, JUndef, JUndef),
      DiagnoseBody(Sym("array", <<>>, <<JStr(S_flu), JNum(2)>>), JUndef, JUndef, JUndef),
      DiagnoseBody(Sym("array", <<>>, <<JStr(<<32>>)>>), JUndef, JUndef, JUndef),
      DiagnoseBody(Sym("number", <<>>, <<>>), JUndef, JUndef, JUndef),
      DiagnoseBody(Sym("string", S_headache, <<>>), JUndef, JUndef, JUndef),
      DiagnoseBody(Sym("string", <<32, 32>>, <<>>), JUndef, JUndef, JUndef),
      DiagnoseBody(Sym("array", <<>>, <<JStr(S_headache)>>), JUndef, JUndef, JUndef),
      DiagnoseBody(Sym("array", <<>>, <<JStr(S_flu), JStr(<<32>>)>>), JUndef, JUndef,
                   JStr(<<32, 69, 78, 32>>)),                          \* ' EN '
      DiagnoseBody(Sym("array", <<>>, <<JStr(S_flu)>>), JUndef, JUndef, JStr(<<120, 120>>)),
      DiagnoseBody(Sym("array", <<>>, <<JStr(S_flu)>>), JUndef, JUndef, JNum(2)),
      DiagnoseBody(Sym("array", <<>>, <<JStr(S_unsafe)>>), JUndef, JUndef, JUndef),
      DiagnoseBody(Sym("array", <<>>, <<JStr(S_unsafe)>>), JUndef, JUndef, JStr(<<120, 120>>)),
      DiagnoseBody(Sym("array", <<>>, <<JStr(S_unsafe)>>), JStr(S_base64), JStr(S_png), JUndef),
      DiagnoseBody(Sym("string", <<83, 101, 108, 102, 45, 72, 97, 114, 109>>, <<>>), JUndef, JUndef, JUndef),
      DiagnoseBody(Sym("array", <<>>, <<JStr(<<109, 121, 32, 108, 105, 102, 101, 32, 109, 117, 115, 116, 32, 101, 110, 100>>), JStr(<<32, 109, 121, 32>>), JStr(<<108, 105, 102, 101>>)>>),
                   JUndef, JUndef, JUndef),
      DiagnoseBody(Sym("array", <<>>, <<JStr(S_flu)>>), JUndef, JUndef, JStr(<<32>>)),
      DiagnoseBody(Sym("array", <<>>, <<JStr(S_flu)>>), JUndef, JUndef,
                   JStr(<<32, 84, 69, 32>>)),                          \* ' TE '
      DiagnoseBody(Sym("array", <<>>, <<JStr(S_telugu)>>), JStr(S_base64), JStr(S_png), JUndef),
      DiagnoseBody(Sym("undefined", <<>>, <<>>), JStr(S_base64), JStr(S_png), JUndef),
      DiagnoseBody(Sym("array", <<>>, <<JStr(S_flu)>>), JStr(S_base64), JUndef, JUndef),
      DiagnoseBody(Sym("array", <<>>, <<JStr(S_flu)>>), JStr(S_base64), JStr(S_plain), JUndef) }

Users ==
    {NoUser, User(TRUE, FALSE, FALSE), User(TRUE, TRUE, FALSE), User(TRUE, TRUE, TRUE)}

\* diagnose up to the call of the service
PostDiagnose ==
    /\ pc \in {"idle", "done"}
    /\ http.phase # "pending"
    /\ \E b \in DiagnoseBodies :
         LET imageValidation == validateOptionalImage(b.imageData, b.imageMimeType)
             validation == validateSymptoms(b.symptoms, imageValidation.image.t # "null")
             languageValidation == validateLanguageCode(b.languageCode)
             error ==
                 IF imageValidation.error # "" THEN imageValidation.error
                 ELSE IF validation.error # "" THEN validation.error
                 ELSE IF languageValidation.error # "" THEN languageValidation.error
                 ELSE IF validation.normalized # <<>> /\ isUnsafeInput(validation.normalized)
                   THEN "unsafe_input"
                 ELSE ""
         IN IF error # ""
              THEN /\ http' = Rejected("diagnose", b, NoUser, error)
                   /\ NoService
              ELSE /\ \E u \in Users : http' = Pending("diagnose", b, u)
                   /\ CallDiagnosis(Request(TRUE,
                                            [i \in 1..Len(validation.normalized) |->
                                                 JStr(validation.normalized[i])],
                                            imageValidation.image,
                                            languageValidation.normalized))
                   /\ FreshAudio
    /\ UNCHANGED <<env, model, modelName>>
    /\ UNCHANGED <<waitVars, pureVars>>
    /\ UNCHANGED <<sharedVars, clientVars>>

\* diagnose after the service has settled: the emergency mail and the answer
AlertDue_AnySeverity(diagnosis, fullUser) ==
    /\ fullUser.loggedIn
    /\ fullUser.found
    /\ fullUser.contactEmail

\* severityLevel === 3 && fullUser?.emergencyContacts?.length > 0, and one of
\* the contacts has an email; fullUser is null unless req.user.id is set and
\* the lookup found the user
AlertDue(diagnosis, fullUser) ==
    /\ ToNumber(diagnosis.severity) = JNum(6)
    /\ fullUser.loggedIn
    /\ fullUser.found
    /\ fullUser.contactEmail

DiagnoseRespond ==
    /\ http.route = "diagnose"
    /\ http.phase = "pending"
    /\ pc = "done"
    /\ IF outcome.kind = "returned"
         THEN LET diagnosis == outcome.value
                  normalizedLanguageCode == validateLanguageCode(http.body.languageCode).normalized
                  alerted == AlertDue(diagnosis, http.user)
                  answer == Json(diagnosis.condition, diagnosis.severity, diagnosis.reasoning,
                                 IF diagnosis.languageCode # <<>> THEN diagnosis.languageCode
                                 ELSE IF Truthy(normalizedLanguageCode)
                                   THEN normalizedLanguageCode.s
                                 ELSE L_en,
                                 <<>>)
              IN \E sent \in IF alerted THEN BOOLEAN ELSE {FALSE} :
                     http' = [http EXCEPT !.phase = "answered",
                                          !.status = 200,
                                          !.alerts = IF alerted THEN 1 ELSE 0,
                                          !.notified = sent,
                                          !.json = answer]
         ELSE http' = [http EXCEPT !.phase = "answered",
                                   !.status = StatusOf(outcome.err),
                                   !.error = "llm_failure"]
    /\ NoService
    /\ UNCHANGED <<env, model, modelName>>
    /\ UNCHANGED <<waitVars, pureVars>>
    /\ UNCHANGED <<sharedVars, clientVars>>

\* the older diagnose handler, whose service takes the array itself and
\* either resolves or rejects
diagnoseLegacy ==
    /\ pc \in {"idle", "done"}
    /\ http.phase # "pending"
    /\ \E b \in DiagnoseBodies :
         LET symptoms == b.symptoms
             error ==
                 IF symptoms.t \in {"undefined", "null"} THEN "symptoms required"
                 ELSE IF symptoms.t # "array" THEN "symptoms must be an array"
                 ELSE IF Len(symptoms.items) < 1
                   THEN "symptoms must contain at least one item"
                 ELSE IF \E i \in 1..Len(symptoms.items) : symptoms.items[i].t # "string"
                   THEN "symptoms must contain only strings"
                 ELSE IF isUnsafeInput([i \in 1..Len(symptoms.items) |-> symptoms.items[i].s])
                   THEN "unsafe_input"
                 ELSE ""
         IN IF error # ""
              THEN http' = Rejected("diagnose-legacy", b, NoUser, error)
              ELSE \E settles \in BOOLEAN :
                       http' = Http("diagnose-legacy", b, NoUser, "answered",
                                    IF settles THEN 200 ELSE 503,
                                    IF settles THEN "" ELSE "llm_failure", TRUE, FALSE, 0,
                                    IF settles
                                      THEN Json(V_Flu.s, JNum(2), V_Rest.s, <<>>, <<>>)
                                      ELSE NoJson)
    /\ NoService
    /\ UNCHANGED <<env, model, modelName>>
    /\ UNCHANGED <<waitVars, pureVars>>
    /\ UNCHANGED <<sharedVars, clientVars>>

NextHttp ==
    \/ PostTranscribeAudio
    \/ TranscribeRespond
    \/ PostDiagnose
    \/ DiagnoseRespond
    \/ diagnoseLegacy
    \/ Attempt
    \/ TranscribeReturn
    \/ DetectReturn
    \/ PrimaryReturn
    \/ TranslateReturn

DefaultEnv == Env(TRUE, <<>>, <<>>, <<>>, <<>>)

NoSubject == [kind |-> "none"]

InitPure ==
    /\ subject = NoSubject
    /\ applied = <<>>
    /\ http = NoHttp

MaxCalls == 2

HalfHours == 48

HalfHourMs == 30 * 60 * 1000

NameSubject(name) == [kind |-> "name", name |-> name]

MatchSubject(name, map) == [kind |-> "match", name |-> name, map |-> map]

\* a text made by wrapping the serialization of the object with these members
TextSubject(pairs, before, after) ==
    [kind |-> "text", wrapped |-> TRUE, pairs |-> pairs,
     text |-> before \o ObjText(pairs) \o after]

\* any other text
RawSubject(text) == [kind |-> "text", wrapped |-> FALSE, pairs |-> <<>>, text |-> text]

KeyMinutes(key, minutes) == [key |-> key, minutes |-> minutes]

N_FairfaxHospital == <<70, 97, 105, 114, 102, 97, 120, 32, 72, 111, 115, 112, 105, 116, 97, 108>>

N_LoudounBang == <<73, 78, 79, 86, 65, 32, 32, 76, 111, 117, 100, 111, 117, 110, 32, 72, 111, 115, 112, 105, 116, 97, 108, 33>>

N_Reston == <<82, 101, 115, 116, 111, 110, 32, 85, 114, 103, 101, 110, 116, 32, 67, 97, 114, 101>>

N_StMary == <<83, 116, 32, 77, 97, 114, 121>>

MatchNames == {N_Fairfax, N_FairfaxHospital, N_LoudounBang, N_Reston, N_StMary}

MatchMaps ==
    { <<>>,
      <<KeyMinutes(<<105, 110, 111, 118, 97, 32, 102, 97, 105, 114, 102, 97, 120, 32, 104, 111, 115, 112, 105, 116, 97, 108>>, 30), KeyMinutes(<<105, 110, 111, 118, 97, 32, 108, 111, 117, 100, 111, 117, 110, 32, 104, 111, 115, 112, 105, 116, 97, 108>>, 45)>>,
      <<KeyMinutes(<<105, 110, 111, 118, 97, 32, 102, 97, 105, 114, 102, 97, 120, 32, 99, 108, 105, 110, 105, 99>>, 5), KeyMinutes(<<102, 97, 105, 114, 102, 97, 120, 32, 104, 111, 115, 112, 105, 116, 97, 108, 32, 99, 101, 110, 116, 101, 114>>, 7)>>,
      <<KeyMinutes(<<102, 97, 105, 114, 102, 97, 120, 32, 104, 111, 115, 112, 105, 116, 97, 108, 32, 99, 101, 110, 116, 101, 114>>, 7), KeyMinutes(<<105, 110, 111, 118, 97, 32, 102, 97, 105, 114, 102, 97, 120, 32, 99, 108, 105, 110, 105, 99>>, 5),
        KeyMinutes(<<105, 110, 111, 118, 97, 32, 102, 97, 105, 114, 102, 97, 120, 32, 104, 111, 115, 112, 105, 116, 97, 108, 32, 99, 97, 109, 112, 117, 115>>, 0)>>,
      <<KeyMinutes(<<102, 97, 105, 114, 102, 97, 120>>, 12), KeyMinutes(<<109, 97, 114, 121, 32, 119, 97, 115, 104, 105, 110, 103, 116, 111, 110>>, 20),
        KeyMinutes(<<105, 110, 111, 118, 97, 32, 102, 97, 105, 114, 102, 97, 120, 32, 104, 111, 115, 112, 105, 116, 97, 108, 32, 99, 97, 109, 112, 117, 115>>, 25)>>,
      <<KeyMinutes(<<108, 111, 117, 100, 111, 117, 110, 32, 109, 101, 100, 105, 99, 97, 108, 32, 99, 101, 110, 116, 101, 114>>, 15), KeyMinutes(<<102, 97, 105, 114, 102, 97, 120, 32, 104, 111, 115, 112, 105, 116, 97, 108>>, 60),
        KeyMinutes(<<105, 110, 111, 118, 97, 32, 102, 97, 105, 114, 102, 97, 120>>, 9)>> }

SchemaObjects ==
    { DropUndefined(<< <<K_condition, V_Flu>>, <<K_severity, JNum(4)>>,
                       <<K_reasoning, V_Rest>>, <<K_languageCode, JStr(L_en)>> >>),
      DropUndefined(<< <<K_condition, V_Gripe>>, <<K_severity, JNum(6)>>,
                       <<K_reasoning, V_Reposo>>, <<K_languageCode, JStr(L_es)>> >>),
      DropUndefined(<< <<K_condition, V_Flu>>, <<K_severity, JNum(2)>>,
                       <<K_reasoning, V_Rest>> >>) }

\* nothing, white space, prose, a code fence, prose with braces of its own
Wrappings ==
    { << <<>>, <<>> >>,
      << <<TWs>>, <<TWs>> >>,
      << <<TWord, TWs, TWord, TWs>>, <<>> >>,
      << <<>>, <<TWs, TWord, TWs, TWord>> >>,
      << <<TWord, TWs>>, <<TWs, TWord>> >>,
      << <<TWord, TWs, Tok("{"), TWord, Tok("}"), TWs>>, <<>> >>,
      << <<>>, <<TWs, TWord, Tok("}")>> >> }

Subjects ==
    {NameSubject(h.name) : h \in {H_Fairfax, H_Loudoun, H_General, H_Clinic}}
        \cup {MatchSubject(n, m) : n \in MatchNames, m \in MatchMaps}
        \cup {TextSubject(o, w[1], w[2]) : o \in SchemaObjects, w \in Wrappings}
        \cup {RawSubject(t) : t \in NoisyTexts}

\* a call of generateSyntheticWait(subject.name) at the time now
CallSyntheticWait ==
    /\ subject.kind = "name"
    /\ Len(applied) < MaxCalls
    /\ applied' = Append(applied,
                         [ms |-> now, hour |-> Hour(now),
                          value |-> generateSyntheticWait(subject.name, Hour(now))])
    /\ UNCHANGED <<subject, http>>
    /\ UNCHANGED <<sharedVars, clientVars>>
    /\ UNCHANGED <<llmVars, audioVars, waitVars>>

\* half an hour passes
PassTime ==
    /\ subject.kind = "name"
    /\ now < StartMs + HalfHours * HalfHourMs
    /\ now' = now + HalfHourMs
    /\ UNCHANGED <<cache, hospitals, tasks, values, settled, batch, results>>
    /\ UNCHANGED <<pureVars, http>>
    /\ UNCHANGED <<sharedVars, clientVars>>
    /\ UNCHANGED <<llmVars, audioVars>>

\* a call of fuzzyMatch(subject.name, subject.map)
CallFuzzyMatch ==
    /\ subject.kind = "match"
    /\ applied = <<>>
    /\ applied' = <<fuzzyMatch(subject.name, subject.map)>>
    /\ UNCHANGED <<subject, http>>
    /\ UNCHANGED <<sharedVars, clientVars>>
    /\ UNCHANGED <<llmVars, audioVars, waitVars>>

\* a call of parseJsonFromText(subject.text)
CallParseJson ==
    /\ subject.kind = "text"
    /\ applied = <<>>
    /\ applied' = <<parseJsonFromText(subject.text)>>
    /\ UNCHANGED <<subject, http>>
    /\ UNCHANGED <<sharedVars, clientVars>>
    /\ UNCHANGED <<llmVars, audioVars, waitVars>>

NextPure == CallSyntheticWait \/ PassTime \/ CallFuzzyMatch \/ CallParseJson

(***************************************************************************)
(* callGeminiJson: several invocations on the one module-level handle      *)
(***************************************************************************)
MaxRuns == 2

Run(position, list, i, candidate, handle, ok) ==
    [pc |-> position, cands |-> list, idx |-> i, candidate |-> candidate,
     handle |-> handle, ok |-> ok]

IdleRun == Run("idle", <<>>, 1, Null, Null, FALSE)

InitShared == runs = [r \in 1..MaxRuns |-> IdleRun]

\* variant: the handle is built only when there is none
BindModel_IfAbsent(m, name, candidate) ==
    IF m = Null THEN [model |-> candidate, modelName |-> candidate]
    ELSE [model |-> m, modelName |-> name]

\* if (!model || modelName !== candidate) { resetModel(); model = ...; modelName = candidate; }
\* a handle is written as the name of the candidate it was built for
BindModel(m, name, candidate) ==
    IF m = Null \/ name # candidate THEN [model |-> candidate, modelName |-> candidate]
    ELSE [model |-> m, modelName |-> name]

\* invocation r runs the iteration for list[i] up to its await, finding the
\* module-level handle as m and name: it binds the handle and calls
\* getModel().generateContent, or leaves the loop when the list is used up or
\* getModel throws for the missing key
Iterate(r, list, i, m, name) ==
    IF i > Len(list)
      THEN /\ runs' = [runs EXCEPT ![r] = Run("done", list, i, Null, Null, FALSE)]
           /\ model' = m
           /\ modelName' = name
      ELSE LET b == BindModel(m, name, list[i]) IN
           /\ model' = b.model
           /\ modelName' = b.modelName
           /\ runs' = [runs EXCEPT ![r] =
                          IF env.apiKey
                            THEN Run("awaiting", list, i, list[i], b.model, FALSE)
                            ELSE Run("done", list, i, list[i], Null, FALSE)]

\* a caller invokes callGeminiJson with one of the two candidate lists
Invoke ==
    /\ \E r \in 1..MaxRuns :
         /\ runs[r].pc \in {"idle", "done"}
         /\ \E list \in {getCandidateModels(env), getImageCandidateModels(env)} :
              Iterate(r, list, 1, model, modelName)
    /\ UNCHANGED <<env, pc, input, payload, cands, idx, looping, lastError, result,
                   calls, parsed, diag, translation, outcome>>
    /\ UNCHANGED <<waitVars, audioVars, pureVars, http, clientVars>>

\* the generateContent call of invocation r settles
Settle_Run ==
    /\ \E r \in 1..MaxRuns :
         /\ runs[r].pc = "awaiting"
         /\ \E a \in {Answer(TRUE, <<>>, NoError)}
                        \cup {Answer(FALSE, <<>>, e) : e \in BackendErrors} :
              IF RetryNext(a.ok, a.err)
                THEN \* catch: resetModel(), then the next iteration
                     Iterate(r, runs[r].cands, runs[r].idx + 1, Null, Null)
                ELSE /\ runs' = [runs EXCEPT ![r].pc = "done", ![r].ok = a.ok]
                     /\ UNCHANGED <<model, modelName>>
    /\ UNCHANGED <<env, pc, input, payload, cands, idx, looping, lastError, result,
                   calls, parsed, diag, translation, outcome>>
    /\ UNCHANGED <<waitVars, audioVars, pureVars, http, clientVars>>

NextShared == Invoke \/ Settle_Run

(***************************************************************************)
(* The recording flow of the Symptoms page                                 *)
(***************************************************************************)
\* recorder.start(300)
SliceMs == 300

\* if (now - lastTranscribeAtRef.current >= 2500)
ThrottleMs == 2500

MaxSlices == 10

\* Date.now() when the page is opened
ClockStart == 1000 * 1000

\* a call of transcribeCurrentAudio past its guard: encoding its blob or
\* waiting for api.transcribeAudio; covers: the chunks of its blob
Transcription(phase, finalPass, covers, at) ==
    [phase |-> phase, finalPass |-> finalPass, covers |-> covers, at |-> at]

InitClient ==
    /\ recorder = "inactive"
    /\ audioChunks = 0
    /\ isTranscribing = FALSE
    /\ lastTranscribeAt = 0
    /\ clock = ClockStart
    /\ request = <<>>

\* variant: only the empty buffer turns a call away
PassesGuard_ChunksOnly(busy, chunks) == chunks # 0

\* if (isTranscribingRef.current || audioChunksRef.current.length === 0) return;
PassesGuard(busy, chunks) == ~ busy /\ chunks # 0

\* transcribeCurrentAudio(finalPass) up to its first await, with chunks in the
\* buffer.  Every chunk in the buffer has a size above 0, so the blob is not
\* empty
transcribeCurrentAudio(finalPass, chunks, t) ==
    IF PassesGuard(isTranscribing, chunks)
      THEN /\ isTranscribing' = TRUE
           /\ request' = Append(request, Transcription("encoding", finalPass, chunks, t))
      ELSE UNCHANGED <<isTranscribing, request>>

\* recorder.ondataavailable at time t
ondataavailable(hasData, t) ==
    IF hasData
      THEN /\ audioChunks' = audioChunks + 1
           /\ IF t - lastTranscribeAt >= ThrottleMs
                THEN /\ lastTranscribeAt' = t
                     /\ transcribeCurrentAudio(FALSE, audioChunks + 1, t)
                ELSE UNCHANGED <<lastTranscribeAt, isTranscribing, request>>
      ELSE UNCHANGED <<audioChunks, lastTranscribeAt, isTranscribing, request>>

\* the button is pressed while nothing records; it is disabled during a final
\* pass
StartRecording ==
    /\ recorder = "inactive"
    /\ \A k \in 1..Len(request) : ~ request[k].finalPass
    /\ recorder' = "recording"
    /\ audioChunks' = 0
    /\ lastTranscribeAt' = 0
    /\ UNCHANGED <<isTranscribing, clock, request>>
    /\ UNCHANGED <<llmVars, waitVars, audioVars, pureVars, http, sharedVars>>

\* a time slice of the recorder ends
DataAvailable ==
    /\ recorder = "recording"
    /\ clock < ClockStart + MaxSlices * SliceMs
    /\ clock' = clock + SliceMs
    /\ \E hasData \in BOOLEAN : ondataavailable(hasData, clock + SliceMs)
    /\ UNCHANGED recorder
    /\ UNCHANGED <<llmVars, waitVars, audioVars, pureVars, http, sharedVars>>

\* stopRecording: recorder.stop()
StopRecording ==
    /\ recorder = "recording"
    /\ recorder' = "flushing"
    /\ UNCHANGED <<audioChunks, isTranscribing, lastTranscribeAt, clock, request>>
    /\ UNCHANGED <<llmVars, waitVars, audioVars, pureVars, http, sharedVars>>

\* the dataavailable event that stop() fires with the data gathered so far
Flush ==
    /\ recorder = "flushing"
    /\ recorder' = "stopping"
    /\ \E hasData \in BOOLEAN : ondataavailable(hasData, clock)
    /\ UNCHANGED clock
    /\ UNCHANGED <<llmVars, waitVars, audioVars, pureVars, http, sharedVars>>

\* recorder.onstop up to its await; a call that the guard turns away resolves
\* at once and the buffer is emptied
onstop ==
    /\ recorder = "stopping"
    /\ recorder' = "inactive"
    /\ IF audioChunks = 0
         THEN UNCHANGED <<audioChunks, isTranscribing, request>>
         ELSE /\ transcribeCurrentAudio(TRUE, audioChunks, clock)
              /\ audioChunks' = IF PassesGuard(isTranscribing, audioChunks)
                                  THEN audioChunks ELSE 0
    /\ UNCHANGED <<lastTranscribeAt, clock>>
    /\ UNCHANGED <<llmVars, waitVars, audioVars, pureVars, http, sharedVars>>

\* the finally block of call k, and after a final pass the rest of onstop
Finally(k) ==
    /\ isTranscribing' = FALSE
    /\ request' = [j \in 1..(Len(request) - 1) |->
                       IF j < k THEN request[j] ELSE request[j + 1]]
    /\ audioChunks' = IF request[k].finalPass THEN 0 ELSE audioChunks

\* blobToBase64 resolves and the request is sent, or it rejects
Encoded ==
    /\ \E k \in 1..Len(request) :
         /\ request[k].phase = "encoding"
         /\ \/ /\ request' = [request EXCEPT ![k].phase = "sent"]
               /\ UNCHANGED <<isTranscribing, audioChunks>>
            \/ Finally(k)
    /\ UNCHANGED <<recorder, lastTranscribeAt, clock>>
    /\ UNCHANGED <<llmVars, waitVars, audioVars, pureVars, http, sharedVars>>

\* api.transcribeAudio resolves or rejects
Answered ==
    /\ \E k \in 1..Len(request) :
         /\ request[k].phase = "sent"
         /\ Finally(k)
    /\ UNCHANGED <<recorder, lastTranscribeAt, clock>>
    /\ UNCHANGED <<llmVars, waitVars, audioVars, pureVars, http, sharedVars>>

NextClient ==
    StartRecording \/ DataAvailable \/ StopRecording \/ Flush \/ onstop \/ Encoded \/ Answered

vars == <<llmVars, waitVars, audioVars, pureVars, http, sharedVars, clientVars>>

Init ==
    /\ InitLLM
    /\ InitAudio
    /\ InitWait
    /\ InitPure
    /\ InitShared
    /\ InitClient

Spec == Init /\ [][NextLLM]_vars

SpecAudio == Init /\ [][NextAudio]_vars

InitSubjects ==
    /\ InitLLM
    /\ env = DefaultEnv
    /\ InitAudio
    /\ InitWait
    /\ subject \in Subjects
    /\ applied = <<>>
    /\ http = NoHttp
    /\ InitShared
    /\ InitClient

SpecPure == InitSubjects /\ [][NextPure]_vars

\* the resolver reads nothing of process.env: one environment is enough
InitResolver ==
    /\ InitLLM
    /\ env = DefaultEnv
    /\ InitAudio
    /\ InitWait
    /\ InitPure
    /\ InitShared
    /\ InitClient

SpecWait == InitResolver /\ [][NextWait]_vars

SpecHttp == InitResolver /\ [][NextHttp]_vars

\* invocations of callGeminiJson interleaved at their awaits
SpecShared == Init /\ [][NextShared]_vars

\* the events of the Symptoms page while it records
SpecClient == InitResolver /\ [][NextClient]_vars

\* every fetch in flight comes to an end
SpecWaitFair ==
    /\ InitResolver /\ [][NextWait]_vars
    /\ WF_vars(KnownFetchDone)
    /\ WF_vars(GenericFetchDone)

(***************************************************************************)
(* Properties of the diagnosis pipeline and of the call chain              *)
(***************************************************************************)
\* a string with something other than white space in it
NonBlank(str) == Trim(str) # <<>>

\* the payload has what the diagnosis schema requires: an object whose
\* condition and reasoning are non-blank strings and whose severity is 1, 2 or 3
\* once converted to a number
PayloadPasses(p) ==
    /\ p.t = "object"
    /\ Field(p.f, K_condition).t = "string" /\ NonBlank(Field(p.f, K_condition).s)
    /\ Field(p.f, K_reasoning).t = "string" /\ NonBlank(Field(p.f, K_reasoning).s)
    /\ ToNumber(Field(p.f, K_severity)) \in {JNum(2), JNum(4), JNum(6)}

\* C1: every diagnosis generateDiagnosis returns has a severity that is one of
\* the integers 1, 2, 3, a non-empty condition and reasoning and a supported
\* languageCode, and comes from a primary payload that passed validation
C1_ReturnedDiagnosisValid ==
    outcome.kind = "returned" =>
        /\ outcome.value.severity \in {JNum(2), JNum(4), JNum(6)}
        /\ NonBlank(outcome.value.condition)
        /\ NonBlank(outcome.value.reasoning)
        /\ IsSupported(outcome.value.languageCode)
        /\ PayloadPasses(parsed)

\* a diagnosis returned after a translation that was applied
C1_Witness ==
    /\ pc = "done"
    /\ outcome.kind = "returned"
    /\ translation = "applied"
    /\ outcome.value.severity = JNum(6)

\* the call failed with an error of the 'model not found / not supported' class
FailedNotFound(c) == ~ c.ok /\ isModelNotFoundError(c.err)

\* the call failed with an error of any other class
FailedOther(c) == ~ c.ok /\ ~ isModelNotFoundError(c.err)

\* C2: the candidates are attempted in list order, each at most once, no call
\* follows a successful one, and when every candidate before the last attempted
\* one failed as not found and that one succeeded, the chain's result is the
\* parse of that candidate's output
C2_FallbackInOrder ==
    /\ Len(calls) <= Len(cands)
    /\ \A i \in 1..Len(calls) : calls[i].candidate = cands[i]
    /\ \A i, j \in 1..Len(calls) : i # j => calls[i].candidate # calls[j].candidate
    /\ \A i \in 1..Len(calls) : calls[i].ok => i = Len(calls)
    /\ ( /\ pc \in {"primary", "translate"}
         /\ calls # <<>>
         /\ calls[Len(calls)].ok
         /\ \A i \in 1..(Len(calls) - 1) : FailedNotFound(calls[i]) )
       => /\ LoopEnded
          /\ ChainResult = parseJsonFromText(calls[Len(calls)].text)

\* candidates [A, B, C]: A and B failed as not found, C answered, the diagnosis
\* came back
C2_Witness ==
    /\ pc = "done"
    /\ Len(cands) = 3
    /\ Len(calls) = 3
    /\ FailedNotFound(calls[1])
    /\ FailedNotFound(calls[2])
    /\ calls[3].ok
    /\ outcome.kind = "returned"

\* the class of the error a caller of callGeminiJson sees after exhaustion: the
\* normalized error keeps the 404 or the backend's 'not found' message
ModelUnavailable(e) ==
    \/ e.statusCode = 404
    \/ Includes(ToLowerCase(e.message), STR_NOT_FOUND)
    \/ Includes(ToLowerCase(e.message), STR_NOT_SUPPORTED)

\* C3: when every attempt of a chain over a non-empty list failed as not found,
\* the loop ends only after one attempt per candidate, and the chain throws
\* the normalized not-found error instead of returning
C3_ExhaustedChainFails ==
    ( /\ pc \in {"primary", "translate"}
      /\ LoopEnded
      /\ env.apiKey
      /\ cands # <<>>
      /\ \A i \in 1..Len(calls) : FailedNotFound(calls[i]) )
    => /\ Len(calls) = Len(cands)
       /\ \A i \in 1..Len(calls) : calls[i].candidate = cands[i]
       /\ ~ ChainResult.ok
       /\ ModelUnavailable(ChainResult.err)

\* three candidates, three not-found failures, the loop is over
C3_Witness ==
    /\ pc = "primary"
    /\ LoopEnded
    /\ Len(cands) = 3
    /\ Len(calls) = 3
    /\ \A i \in 1..3 : FailedNotFound(calls[i])

\* C4: an attempt that fails with an error outside the not-found class is the
\* last call of its chain: the loop is over and the chain throws that error,
\* normalized, which is not of the not-found class
C4_OtherFailureAborts ==
    \A i \in 1..Len(calls) :
        FailedOther(calls[i]) =>
            /\ i = Len(calls)
            /\ pc \in {"primary", "translate"} =>
                   /\ LoopEnded
                   /\ ChainResult = Throw(normalizeGeminiError(calls[i].err))
                   /\ ~ ModelUnavailable(ChainResult.err)

\* the second of three candidates failed with another class of error after the
\* first was not found
C4_Witness ==
    /\ pc = "primary"
    /\ Len(cands) = 3
    /\ Len(calls) = 2
    /\ FailedNotFound(calls[1])
    /\ FailedOther(calls[2])

\* C5: a translation call that failed, or a translation with an empty field,
\* still ends in the untranslated validated diagnosis being returned
C5_TranslationBestEffort ==
    translation \in {"failed", "empty"} => outcome = Returned(diag)

RequiredOfPayload == {K_condition, K_severity, K_reasoning}

\* the validation error of the request names the field
NamesField(key) == outcome.kind = "thrown" /\ Includes(outcome.err.message, key)

\* the primary call returned a JSON object
PrimaryObject == pc \in {"translate", "done"} /\ parsed.t = "object"

\* C6 as stated: a payload missing condition, severity, reasoning or
\* languageCode fails validation with an error naming that field
C6_AnyMissingFieldFails ==
    PrimaryObject =>
        \A key \in RequiredOfPayload \cup {K_languageCode} :
            key \notin DOMAIN parsed.f => pc = "done" /\ NamesField(key)

\* the field of the payload satisfies the schema
FieldPasses(p, key) ==
    IF key = K_severity
      THEN ToNumber(Field(p.f, key)) \in {JNum(2), JNum(4), JNum(6)}
      ELSE Field(p.f, key).t = "string" /\ NonBlank(Field(p.f, key).s)

\* C6 amended: a payload object missing condition, severity or reasoning fails
\* validation and no diagnosis is built from defaults; the error names the
\* missing field whenever the other two of these fields are valid (otherwise
\* the first failing one in the order condition, reasoning, severity); a valid
\* payload missing only languageCode passes and gets the fallback language code
C6_MissingFieldFails ==
    PrimaryObject =>
        /\ \A key \in RequiredOfPayload :
               key \notin DOMAIN parsed.f
               => /\ pc = "done"
                  /\ outcome.kind = "thrown"
                  /\ diag = NoDiagnosis
                  /\ \E named \in RequiredOfPayload : NamesField(named)
                  /\ (\A other \in RequiredOfPayload \ {key} : FieldPasses(parsed, other))
                         => NamesField(key)
        /\ (PayloadPasses(parsed) /\ K_languageCode \notin DOMAIN parsed.f)
           => /\ diag # NoDiagnosis
              /\ requestedLanguageCode(input) = Null
                     => diag.languageCode = fallbackLanguageCode(input)

\* a payload without severity was rejected
C6_Witness ==
    /\ pc = "done"
    /\ parsed.t = "object"
    /\ K_severity \notin DOMAIN parsed.f
    /\ K_condition \in DOMAIN parsed.f
    /\ K_reasoning \in DOMAIN parsed.f
    /\ NamesField(K_severity)

(***************************************************************************)
(* Properties of the wait-time resolver                                    *)
(***************************************************************************)
\* C7: getWaitTimes returns one record per input facility, in input order:
\* the output is as long as the input and its i-th record carries the fields
\* of the i-th facility, whatever the outcome and the order of completion of
\* the lookups
C7_OrderAndCardinality ==
    batch = "returned" =>
        /\ Len(results) = Len(hospitals)
        /\ \A i \in 1..Len(hospitals) :
             /\ results[i].name = hospitals[i].name
             /\ results[i].website = hospitals[i].website
             /\ results[i].placeId = hospitals[i].placeId

\* a returned batch whose second lookup completed before its first
C7_Witness ==
    /\ batch = "returned"
    /\ Len(hospitals) >= 2
    /\ settled[1] # 1
    /\ hospitals[1].name # hospitals[settled[1]].name

AllFetchesFailed(t) == t.fetched /\ t.allFailed

\* the record of a facility as its own lookup alone determines it
OwnResult(h, t) ==
    CASE t.source = "known" -> Record(h, fuzzyMatch(h.name, t.used.data), FALSE)
      [] t.source = "generic" -> Record(h, extractWaitFromHtml(t.used.html), FALSE)
      [] OTHER -> Record(h, JNum(2 * generateSyntheticWait(h.name, t.hour)), TRUE)

C8_Results ==
    /\ \A i \in 1..Len(tasks) :
         tasks[i].pc = "done" =>
            /\ values[i] = [filled |-> TRUE, value |-> OwnResult(hospitals[i], tasks[i])]
            /\ AllFetchesFailed(tasks[i]) =>
                 /\ values[i].value.waitTimeEstimated
                 /\ values[i].value.waitTime
                      = JNum(2 * generateSyntheticWait(hospitals[i].name, tasks[i].hour))
    /\ batch = "returned" =>
         /\ Len(results) = Len(hospitals)
         /\ \A i \in 1..Len(results) : results[i] = values[i].value

C8_Step ==
    (batch = "running" /\ hospitals' = hospitals) =>
        /\ \A i \in 1..Len(tasks) :
             tasks'[i] # tasks[i] =>
                \A j \in 1..Len(tasks) :
                   j # i => tasks'[j] = tasks[j] /\ values'[j] = values[j]
        /\ \A j \in 1..Len(values) : values[j].filled => values'[j] = values[j]

\* C8: in a batch, a fetch that fails or times out for one facility never
\* fails the batch and never touches another facility: a step of one lookup
\* leaves the other lookups and their slots as they were, every record is
\* what the facility's own lookup determines, the batch returns all its
\* records, and a facility whose fetches all failed gets the synthetic value
\* with waitTimeEstimated = true
C8_FailureIsolated == [] C8_Results /\ [][C8_Step]_vars

\* a returned batch with a facility whose fetches all failed next to one
\* that got a scraped value
C8_Witness ==
    /\ batch = "returned"
    /\ \E i, j \in 1..Len(tasks) :
         /\ i # j
         /\ AllFetchesFailed(tasks[i])
         /\ results[i].waitTimeEstimated
         /\ ~ results[j].waitTimeEstimated

\* C9: for every record, waitTimeEstimated is false exactly when waitTime is
\* the value scraped from the known system or from the generic site, and true
\* exactly when waitTime was produced by generateSyntheticWait
C9_FlagMatchesProvenance ==
    \A i \in 1..Len(tasks) :
       tasks[i].pc = "done" =>
          LET r == values[i].value
              t == tasks[i]
          IN /\ values[i].filled
             /\ batch = "returned" => results[i] = r
             /\ (r.waitTimeEstimated = FALSE) <=> (t.source \in {"known", "generic"})
             /\ (r.waitTimeEstimated = TRUE) <=> (t.source = "synthetic")
             /\ t.source \in {"known", "generic"} =>
                  t.scraped.t = "number" /\ r.waitTime = t.scraped
             /\ t.source = "synthetic" =>
                  /\ t.scraped = JNull
                  /\ r.waitTime = JNum(2 * generateSyntheticWait(hospitals[i].name, t.hour))

\* a returned batch with a scraped wait of 0 minutes and a synthetic one
C9_Witness ==
    /\ batch = "returned"
    /\ \E i, j \in 1..Len(results) :
         /\ results[i].waitTime = JNum(0)
         /\ results[i].waitTimeEstimated = FALSE
         /\ tasks[i].source = "known"
         /\ results[j].waitTimeEstimated = TRUE

C10_WaitTimes ==
    batch = "returned" =>
        /\ Len(results) = Len(hospitals)
        /\ \A i \in 1..Len(results) :
             IsInteger(results[i].waitTime) /\ results[i].waitTime.n >= 0

\* C10: when every fetch in flight comes to an end, getWaitTimes returns, and
\* every facility it returns carries a waitTime that is an integer >= 0
C10_ReturnsWithWaitTimes ==
    /\ [] C10_WaitTimes
    /\ (batch = "running") ~> (batch = "returned")

\* a returned batch with a facility that fetched pages without a wait time
C10_Witness ==
    /\ batch = "returned"
    /\ \E i \in 1..Len(results) :
         /\ tasks[i].fetched /\ ~ tasks[i].allFailed
         /\ tasks[i].source = "synthetic"
         /\ IsInteger(results[i].waitTime)

(***************************************************************************)
(* Transcription: language resolution and the empty transcript             *)
(***************************************************************************)
\* the language code a detection response names, <<>> when the call failed
LanguageFromAudio(r) ==
    IF r.ok THEN ToLowerCase(StringField(r.value, K_languageCode)) ELSE <<>>

\* C11: in the step that ends the detection call (the transcription call has
\* succeeded), a supported detected code replaces the transcription call's
\* code; a failed call or an unsupported code keeps the transcription call's
\* code, and the operation then fails only for a blank transcript.  The code
\* returned is the resolved one unless that is the baseline 'en'.
C11_Step ==
    (pc = "detect" /\ pc' = "done") =>
        LET r == ChainResult
            det == LanguageFromAudio(r)
        IN /\ (r.ok /\ IsSupported(det)) => resolvedCode' = det
           /\ ~ (r.ok /\ IsSupported(det)) => resolvedCode' = firstCode
           /\ symptomsText # <<>> => heard'.kind = "returned"
           /\ heard'.kind = "thrown" =>
                  /\ symptomsText = <<>>
                  /\ heard'.err = EmptyTranscript
           /\ (heard'.kind = "returned" /\ resolvedCode' # L_en) =>
                  heard'.languageCode = resolvedCode'

C11_DetectionOverridesOrIsSwallowed == [][C11_Step]_vars

\* the detection call failed after a transcription that said 'es': 'es' is returned
C11_Witness ==
    /\ pc = "done"
    /\ detection = "failed"
    /\ lastError # NoError
    /\ firstCode = L_es
    /\ heard.kind = "returned"
    /\ heard.languageCode = L_es

\* C12: a transcription whose transcription call succeeded with a blank
\* trimmed transcript ends in the EmptyTranscript error whatever the detection
\* call did, and every returned value has a non-empty symptomsText and a
\* languageCode of SUPPORTED_LANGUAGES.
C12_EmptyTranscriptFails ==
    (pc = "done" /\ detection # "none") =>
        /\ symptomsText = <<>> => (heard.kind = "thrown" /\ heard.err = EmptyTranscript)
        /\ heard.kind = "returned" =>
               /\ heard.symptomsText # <<>>
               /\ heard.symptomsText = Trim(heard.symptomsText)
               /\ IsSupported(heard.languageCode)
        /\ heard.kind \in {"returned", "thrown"}

\* both calls succeeded, the detection named a supported code, the transcript is blank
C12_Witness ==
    /\ pc = "done"
    /\ detection = "applied"
    /\ symptomsText = <<>>
    /\ heard.kind = "thrown"
    /\ heard.err = EmptyTranscript
    /\ heard.err.statusCode = 503

\* every character of the text is of the Telugu block
IsTeluguScript(text) ==
    /\ text # <<>>
    /\ \A i \in 1..Len(text) : text[i] >= 3072 /\ text[i] <= 3199

\* C13: a transcript in Telugu script whose transcription call said 'en' (or
\* 'te') is returned with languageCode 'te' when the detection call named 'te',
\* named 'en', named no supported code, or failed.
C13_TeluguResolved ==
    ( /\ pc = "done"
      /\ detection # "none"
      /\ IsTeluguScript(symptomsText)
      /\ firstCode \in {L_en, L_te}
      /\ \/ detection \in {"failed", "unsupported"}
         \/ detection = "applied" /\ resolvedCode \in {L_te, L_en} ) =>
        /\ heard.kind = "returned"
        /\ heard.symptomsText = symptomsText
        /\ heard.languageCode = L_te

\* the transcription said 'en', the detection call failed, the script gives 'te'
C13_Witness ==
    /\ pc = "done"
    /\ detection = "failed"
    /\ IsTeluguScript(symptomsText)
    /\ firstCode = L_en
    /\ resolvedCode = L_en
    /\ heard.languageCode = L_te

(***************************************************************************)
(* The synthetic wait, the fuzzy match and the JSON extraction             *)
(***************************************************************************)
\* C14: every value generateSyntheticWait returns is an integer of 15..90, is
\* the rounding of 15 + 75 * r / 233280 for r the seeded remainder, and two
\* calls for the same name within one hour of the day return the same value.
C14_SyntheticWait ==
    subject.kind = "name" =>
        \A i \in 1..Len(applied) :
            LET seed == SumCharCodes(subject.name) + applied[i].hour
                r == (seed * 9301 + 49297) % 233280
                v == applied[i].value
            IN /\ applied[i].hour \in 0..23
               /\ v \in WAIT_MIN..WAIT_MAX
               /\ 2 * 233280 * (v - 15) - 2 * 75 * r <= 233280
               /\ 2 * 75 * r - 2 * 233280 * (v - 15) < 233280
               /\ \A j \in 1..Len(applied) :
                      applied[j].hour = applied[i].hour => applied[j].value = v

\* two calls half an hour apart within the same hour, and a third value in range
C14_Witness ==
    /\ subject.kind = "name"
    /\ Len(applied) = 2
    /\ applied[1].ms # applied[2].ms
    /\ applied[1].hour = applied[2].hour
    /\ applied[1].value = applied[2].value
    /\ applied[1].value > WAIT_MIN

\* the score of the i-th key of the subject's map against the normalized name
KeyScore(i) == overlapScore(normalizeName(subject.name), subject.map[i].key)

\* the keys whose score is strictly above one half
AboveHalf == {i \in 1..Len(subject.map) : 2 * KeyScore(i).num > KeyScore(i).den}

\* C15: fuzzyMatch returns the minutes of the key equal to the normalized
\* name when there is one; otherwise the minutes of the first key of highest
\* score among the keys scoring strictly above one half; null when there is none.
C15_FuzzyMatch ==
    (subject.kind = "match" /\ applied # <<>>) =>
        LET m == subject.map
            exact == {i \in 1..Len(m) : m[i].key = normalizeName(subject.name)}
        IN IF exact # {}
             THEN \A i \in exact : applied[1] = JNum(2 * m[i].minutes)
           ELSE IF AboveHalf = {} THEN applied[1] = JNull
           ELSE \E i \in AboveHalf :
                    /\ \A j \in AboveHalf : ~ FracGreater(KeyScore(j), KeyScore(i))
                    /\ \A j \in AboveHalf :
                           j < i => FracGreater(KeyScore(i), KeyScore(j))
                    /\ applied[1] = JNum(2 * m[i].minutes)

\* two keys tie at two thirds and the first one's minutes are returned, while
\* no key equals the normalized name
C15_Witness ==
    /\ subject.kind = "match"
    /\ applied # <<>>
    /\ ~ MapHas(subject.map, normalizeName(subject.name))
    /\ \E i, j \in AboveHalf :
           /\ i < j
           /\ KeyScore(i) = KeyScore(j)
           /\ subject.map[i].minutes # subject.map[j].minutes
           /\ applied[1] = JNum(2 * subject.map[i].minutes)

\* C16 as stated: the serialization of a schema object, whatever prose or code
\* fence is put around it, parses to exactly that object.
C16_RoundTrip ==
    (subject.kind = "text" /\ subject.wrapped /\ applied # <<>>) =>
        /\ applied[1].ok
        /\ applied[1].value.t = "object"
        /\ \A i \in 1..Len(subject.pairs) :
               Field(applied[1].value.f, subject.pairs[i][1]) = subject.pairs[i][2]
        /\ DOMAIN applied[1].value.f = {subject.pairs[i][1] : i \in 1..Len(subject.pairs)}

(***************************************************************************)
(* generateDiagnosis: validation comes before any call                     *)
(***************************************************************************)
NothingProvided(inp) == inp.isArray /\ inp.symptoms = <<>> /\ inp.image.t = "null"

ValidationErrors ==
    { Err(MSG_BAD_SYMPTOMS, 0, 400, "Invalid symptoms input"),
      Err(MSG_BAD_IMAGE, 0, 400, "Invalid image input"),
      Err(MSG_NOTHING, 0, 400, "Either symptoms text or an image is required") }

\* C17: a request with invalid symptoms, an invalid image or neither symptoms
\* nor image ends in an input-validation error (status 400) with no backend
\* call issued, and an execution that ended in one of the input-validation
\* errors has issued no backend call.
C17_ValidationBeforeCalls ==
    /\ ( /\ pc # "idle"
         /\ \/ ~ ValidSymptoms(input)
            \/ input.image.t # "null" /\ ~ ValidImage(input.image)
            \/ NothingProvided(input) ) =>
           /\ pc = "done"
           /\ outcome.kind = "thrown"
           /\ outcome.err \in ValidationErrors
           /\ calls = <<>>
    /\ (pc = "done" /\ outcome.kind = "thrown" /\ outcome.err \in ValidationErrors) =>
           calls = <<>>

\* a request with no symptoms and no image has been rejected without a call
C17_Witness ==
    /\ pc = "done"
    /\ NothingProvided(input)
    /\ outcome.kind = "thrown"
    /\ outcome.err.message = MSG_NOTHING
    /\ calls = <<>>

(***************************************************************************)
(* The controllers: what is answered before a service is called            *)
(***************************************************************************)
\* a member that is absent, null or the empty string
Missing(x) == x.t \in {"undefined", "null"} \/ x = JStr(<<>>)

\* no service has been called for the request at hand
NothingInvoked ==
    /\ ~ http.invoked
    /\ http.phase = "answered"
    /\ pc = "idle"
    /\ calls = <<>>
    /\ audio = NoAudio
    /\ heard = NoHeard
    /\ input = NoRequest
    /\ outcome = NoOutcome

NoImageGiven(b) == b.imageData.t = "undefined" /\ b.imageMimeType.t = "undefined"

\* C19: POST /diagnose without an image answers 400 without calling
\* generateDiagnosis when symptoms is missing, an empty array, or an array
\* with an element that is not a string; so does the older handler.
C19_DiagnoseSymptomsValidation ==
    ( /\ http.route \in {"diagnose", "diagnose-legacy"}
      /\ NoImageGiven(http.body)
      /\ \/ http.body.symptoms.t \in {"undefined", "null"}
         \/ /\ http.body.symptoms.t = "array"
            /\ \/ http.body.symptoms.items = <<>>
               \/ \E i \in 1..Len(http.body.symptoms.items) :
                      http.body.symptoms.items[i].t # "string" ) =>
        (http.status = 400 /\ NothingInvoked)

\* an array with a number in it has been answered 400 by the handler
C19_Witness ==
    /\ http.route = "diagnose"
    /\ NoImageGiven(http.body)
    /\ http.body.symptoms.t = "array"
    /\ \E i \in 1..Len(http.body.symptoms.items) : http.body.symptoms.items[i].t = "number"
    /\ http.status = 400
    /\ http.error = "symptoms must contain only strings"
    /\ NothingInvoked

\* C20 as stated: POST /diagnose answers 400 without calling generateDiagnosis
\* when symptoms is a plain string.
C20_StringSymptomsRejected ==
    ( /\ http.route \in {"diagnose", "diagnose-legacy"}
      /\ http.body.symptoms.t = "string" ) =>
        /\ http.status = 400
        /\ ~ http.invoked

(***************************************************************************)
(* The diagnose handlers: unsafe input, failures, languages, the alert     *)
(***************************************************************************)
\* the text matches one of the self-harm patterns, stated without the scan
MatchesSelfHarm(text) ==
    LET lower == ToLowerCase(text)
        single == CollapseSpaces(lower)
    IN \/ Includes(lower, <<115, 101, 108, 102, 104, 97, 114, 109>>)
       \/ Includes(lower, <<115, 101, 108, 102, 45, 104, 97, 114, 109>>)
       \/ Includes(lower, <<115, 101, 108, 102, 32, 104, 97, 114, 109>>)
       \/ Includes(lower, <<115, 117, 105, 99, 105, 100, 101>>)
       \/ Includes(single, <<107, 105, 108, 108, 32, 109, 121, 115, 101, 108, 102>>)
       \/ Includes(single, <<101, 110, 100, 32, 109, 121, 32, 108, 105, 102, 101>>)
       \/ Includes(single, <<104, 117, 114, 116, 32, 109, 121, 115, 101, 108, 102>>)

\* the symptom strings the handler of the request at hand joins: the trimmed
\* non-blank ones for the current handler, the given ones for the older one
JoinedSymptoms ==
    LET sy == http.body.symptoms
        given == IF sy.t = "string" THEN <<sy.s>>
                 ELSE [i \in 1..Len(sy.items) |-> sy.items[i].s]
    IN IF http.route = "diagnose" THEN JoinSpace(TrimAndFilter(given)) ELSE JoinSpace(given)

\* the symptoms of the request at hand are strings the handler joins
SymptomsAreStrings ==
    LET sy == http.body.symptoms IN
    \/ http.route = "diagnose" /\ sy.t = "string"
    \/ /\ sy.t = "array"
       /\ sy.items # <<>>
       /\ \A i \in 1..Len(sy.items) : sy.items[i].t = "string"

IsDiagnoseRoute == http.route \in {"diagnose", "diagnose-legacy"}

\* the image and the language of the body pass their validations
OtherMembersPass ==
    \/ http.route = "diagnose-legacy"
    \/ /\ validateOptionalImage(http.body.imageData, http.body.imageMimeType).error = ""
       /\ validateLanguageCode(http.body.languageCode).error = ""

\* C21 as stated: whenever the joined symptom text matches a self-harm
\* pattern the answer is 400 with error 'unsafe_input' and generateDiagnosis
\* is not called.
C21_UnsafeAlwaysNamed ==
    (IsDiagnoseRoute /\ SymptomsAreStrings /\ MatchesSelfHarm(JoinedSymptoms)) =>
        /\ http.status = 400
        /\ http.error = "unsafe_input"
        /\ ~ http.invoked

\* C21: a request whose joined symptom text matches a self-harm pattern is
\* answered 400 with no service call and no backend call; the error is
\* 'unsafe_input' when the image and the language of the body are valid, and
\* the error of the earlier validation otherwise.  No request sent to
\* generateDiagnosis carries matching symptoms.
C21_UnsafeInputRejected ==
    /\ (IsDiagnoseRoute /\ SymptomsAreStrings /\ MatchesSelfHarm(JoinedSymptoms)) =>
           /\ http.status = 400
           /\ NothingInvoked
           /\ OtherMembersPass => http.error = "unsafe_input"
    /\ (pc \in {"primary", "translate"} \/ calls # <<>>) =>
           (input.isArray => ~ MatchesSelfHarm(JoinSpace(SymptomStrings(input))))

\* 'I want to Kill  myself' has been answered 400 unsafe_input
C21_Witness ==
    /\ http.route = "diagnose"
    /\ http.body.symptoms.t = "array"
    /\ http.body.symptoms.items = <<JStr(S_unsafe)>>
    /\ http.status = 400
    /\ http.error = "unsafe_input"
    /\ NothingInvoked

\* the current handler answers a request whose service call has been rejected
AnswersRejection ==
    /\ http.route = "diagnose"
    /\ http.phase = "pending"
    /\ http'.phase = "answered"
    /\ outcome.kind = "thrown"

\* C22 as stated: whenever generateDiagnosis rejects, the answer has status
\* 503, error 'llm_failure' and no diagnosis member.
C22_OriginalStep ==
    AnswersRejection =>
        /\ http'.status = 503
        /\ http'.error = "llm_failure"
        /\ http'.json = NoJson

C22_Step ==
    AnswersRejection =>
        /\ http'.error = "llm_failure"
        /\ http'.json = NoJson
        /\ http'.alerts = 0
        /\ http'.status = IF outcome.err.statusCode # 0 THEN outcome.err.statusCode ELSE 503
        /\ http'.status \in {400, 503}
        /\ http'.status = 400 => /\ input.image.t # "null"
                                 /\ outcome.err.message = MSG_IMAGE_FAILED

\* the older handler answers a rejection with 503 and 'llm_failure'
LegacyAnswer ==
    (http.route = "diagnose-legacy" /\ http.invoked) =>
        \/ http.status = 200 /\ http.error = "" /\ http.json # NoJson
        \/ http.status = 503 /\ http.error = "llm_failure" /\ http.json = NoJson

BodyLanguage == ToLowerCase(Trim(http.body.languageCode.s))

\* C23 as stated: every request whose languageCode is a non-empty string
\* outside SUPPORTED_LANGUAGES is answered 400 and reaches no service.
C23_RawCodeRejected ==
    (/\ http.route = "diagnose"
     /\ http.phase # "none"
     /\ http.body.languageCode.t = "string"
     /\ http.body.languageCode.s # <<>>
     /\ ~ IsSupported(http.body.languageCode.s)) =>
        (http.status = 400 /\ ~ http.invoked)

\* C23: a request whose languageCode, trimmed and lower-cased, is non-empty and
\* outside SUPPORTED_LANGUAGES is answered 400 and reaches no service (with
\* the error that names the language when the image and the symptoms pass);
\* a languageCode of white space only counts as absent; the language the
\* translation step targets and the languageCode of every diagnosis returned
\* or answered are members of SUPPORTED_LANGUAGES.
C23_UnsupportedLanguageRejected ==
    /\ (/\ http.route = "diagnose"
        /\ http.phase # "none"
        /\ http.body.languageCode.t = "string"
        /\ BodyLanguage # <<>>
        /\ ~ IsSupported(BodyLanguage)) =>
           /\ http.status = 400
           /\ NothingInvoked
           /\ (/\ validateOptionalImage(http.body.imageData, http.body.imageMimeType).error = ""
               /\ validateSymptoms(http.body.symptoms,
                      validateOptionalImage(http.body.imageData,
                                            http.body.imageMimeType).image.t # "null").error = "")
                  => http.error = "Unsupported language code"
    /\ (http.route = "diagnose" /\ http.invoked /\ input.languageCode.t = "string") =>
           /\ input.languageCode.s = BodyLanguage
           /\ IsSupported(input.languageCode.s)
    /\ pc = "translate" => (IsSupported(diag.languageCode) /\ diag.languageCode # L_en)
    /\ outcome.kind = "returned" => IsSupported(outcome.value.languageCode)
    /\ (http.phase = "answered" /\ http.status = 200 /\ http.route # "transcribe") =>
           (http.json.languageCode # <<>> => IsSupported(http.json.languageCode))
    /\ (http.route = "diagnose" /\ http.phase = "answered" /\ http.status = 200) =>
           IsSupported(http.json.languageCode)

\* languageCode 'xx' has been answered 400 before any service was called
C23_Witness ==
    /\ http.route = "diagnose"
    /\ http.body.languageCode = JStr(<<120, 120>>)
    /\ http.body.symptoms.items = <<JStr(S_flu)>>
    /\ http.status = 400
    /\ http.error = "Unsupported language code"
    /\ NothingInvoked

\* the current handler answers the request it was working on
AnswersDiagnose ==
    /\ http.route = "diagnose"
    /\ http.phase = "pending"
    /\ http'.phase = "answered"

C24_Step ==
    AnswersDiagnose =>
        /\ http'.alerts \in {0, 1}
        /\ http'.alerts = 1 <=>
               /\ outcome.kind = "returned"
               /\ outcome.value.severity = JNum(6)
               /\ http.user = User(TRUE, TRUE, TRUE)
        /\ outcome.kind = "thrown" => http'.alerts = 0
        /\ (outcome.kind = "returned" /\ outcome.value.severity \in {JNum(2), JNum(4)}) =>
               http'.alerts = 0
        /\ http'.notified => http'.alerts = 1

C24_State ==
    /\ http.alerts \in {0, 1}
    /\ http.phase # "answered" => (http.alerts = 0 /\ ~ http.notified)
    /\ http.alerts = 1 =>
           /\ http.route = "diagnose"
           /\ http.invoked
           /\ http.status = 200
           /\ http.json.severity = JNum(6)
           /\ http.user.loggedIn /\ http.user.found /\ http.user.contactEmail

\* C24: sendEmergencyAlert is invoked at most once per request, and only when
\* the handler answers a diagnosis that generateDiagnosis returned with
\* severity 3 for a logged-in user found with an emergency contact that has an
\* email; it is not invoked for severity 1 or 2, for a failed diagnosis, or
\* while the diagnosis is still pending.
C24_EmergencyAlert == [](C24_State) /\ [][C24_Step]_vars

\* a severity-3 diagnosis has been answered and the alert was invoked once
C24_Witness ==
    /\ http.route = "diagnose"
    /\ http.phase = "answered"
    /\ http.status = 200
    /\ http.json.severity = JNum(6)
    /\ http.alerts = 1

\* the website of h is one that scrapeGenericSite can probe
Probes(h) == Truthy(h.website) /\ h.website.t = "string" /\ UrlParses(h.website.s)

\* lookup i is at a source that its facility allows, and has no value while it
\* is still looking
C25_Sources ==
    \A i \in 1..Len(tasks) :
        LET t == tasks[i]
            h == hospitals[i]
        IN /\ t.pc \in {"known", "generic", "done"}
           /\ t.pc = "known" => (IsKnownSystem(h.name) /\ t.path = 0 /\ t.scraped = JNull)
           /\ t.pc = "generic" => (Probes(h) /\ t.path \in 1..WAIT_PATHS /\ t.scraped = JNull)
           /\ t.pc = "done" =>
                 /\ t.source \in {"known", "generic", "synthetic"}
                 /\ t.source = "known" => (IsKnownSystem(h.name) /\ t.scraped # JNull)
                 /\ t.source = "generic" => (Probes(h) /\ t.scraped # JNull)
                 /\ t.source = "synthetic" <=> t.scraped = JNull
                 /\ values[i].filled
                 /\ values[i].value.waitTime.t = "number"
                 /\ values[i].value.waitTimeEstimated <=> t.source = "synthetic"
                 /\ t.source = "synthetic" =>
                        values[i].value.waitTime =
                            JNum(2 * generateSyntheticWait(h.name, t.hour))

\* a batch starts every lookup at the first source that applies to it
C25_Begin ==
    (batch \in {"idle", "returned"} /\ now' = now) =>
        \A i \in 1..Len(tasks') :
            LET t == tasks'[i]
                h == hospitals'[i]
                miss == CacheFresh(cache, now) /\ fuzzyMatch(h.name, cache.data) = JNull
            IN /\ t.pc = "known" <=> (IsKnownSystem(h.name) /\ ~ CacheFresh(cache, now))
               /\ t.pc = "generic" <=>
                      (Probes(h) /\ (IsKnownSystem(h.name) => miss))
               /\ t.pc = "generic" => t.path = 1
               /\ (t.pc = "done" /\ t.source = "known") =>
                      (CacheFresh(cache, now) /\ t.scraped = fuzzyMatch(h.name, cache.data))

\* a lookup only moves forward through the sources: from the known system to
\* its match, else to the first path of the site, else to the generator; from
\* one path of the site to its minutes, else the next path, else the generator
C25_Forward ==
    batch = "running" =>
        \A i \in 1..Len(tasks) :
            LET t == tasks[i]
                u == tasks'[i]
                h == hospitals[i]
            IN (hospitals' = hospitals /\ u # t) =>
                  /\ t.pc # "done"
                  /\ t.pc = "known" =>
                         \/ u.pc = "done" /\ u.source = "known"
                            /\ u.scraped = fuzzyMatch(h.name, cache'.data)
                         \/ u.pc = "generic" /\ u.path = 1 /\ Probes(h)
                         \/ u.pc = "done" /\ u.source = "synthetic" /\ ~ Probes(h)
                  /\ t.pc = "generic" =>
                         \/ u.pc = "done" /\ u.source = "generic"
                         \/ u.pc = "generic" /\ u.path = t.path + 1
                         \/ u.pc = "done" /\ u.source = "synthetic" /\ t.path = WAIT_PATHS

\* C25: per facility the sources are applied in a fixed order, the page of
\* the known system only for a name that matches the pattern, then the paths
\* of the facility's own site only when it has a website, then the synthetic
\* generator; a later source is reached only while the earlier ones gave no
\* value, a failed fetch or a miss at the known system goes on to the site,
\* and every lookup ends with a record, never with an error.
C25_SourceOrder == [](C25_Sources) /\ [][C25_Begin /\ C25_Forward]_vars

\* a facility of the known system whose page gave no match got its minutes
\* from its own site
C25_Witness ==
    /\ batch = "returned"
    /\ \E i \in 1..Len(tasks) :
         /\ IsKnownSystem(hospitals[i].name)
         /\ tasks[i].source = "generic"
         /\ ~ results[i].waitTimeEstimated

\* getWaitTimes is called: the step that starts a batch
BatchStarts == batch \in {"idle", "returned"} /\ now' = now

\* the entry of the known system's url exists and is younger than five minutes
EntryValid == cache.present /\ now - cache.timestamp < CACHE_TTL_MS

\* a call of fetchWithCache is answered from the entry, without a fetch,
\* exactly when the entry is valid, and then with the entry's data
C26_Lookup ==
    BatchStarts =>
        /\ cache' = cache
        /\ \A i \in 1..Len(tasks') :
              IsKnownSystem(hospitals'[i].name) =>
                  /\ tasks'[i].pc # "known" <=> EntryValid
                  /\ EntryValid =>
                         /\ tasks'[i] = AfterKnown(hospitals'[i], NewTask, cache.data, now)
                         /\ ~ tasks'[i].wrote
                  /\ ~ EntryValid => (tasks'[i].fetched /\ tasks'[i].scraped = JNull)

\* the entry changes only when a fetch of fetchWithCache succeeds, and then to
\* the data of that fetch with the current time; it is never removed
C26_Store ==
    /\ cache.present => (cache'.present /\ cache'.timestamp >= cache.timestamp)
    /\ cache' # cache =>
           \E i \in 1..Len(tasks) :
               /\ tasks[i].pc = "known"
               /\ tasks'[i].wrote
    /\ \A i \in 1..Len(tasks) :
           (batch = "running" /\ hospitals' = hospitals
            /\ tasks[i].pc = "known" /\ tasks'[i].wrote) =>
               cache' = [present |-> TRUE, data |-> tasks'[i].got, timestamp |-> now]

\* C26: fetchWithCache answers from the cache, without a fetch, exactly when
\* an entry for the url exists with now - timestamp < 5 minutes; with no
\* entry or an expired one it issues a fetch, and a fetch that succeeds
\* overwrites the entry with the new data and the current time.  An entry is
\* never deleted.
C26_CacheLookup ==
    [](cache.present => cache.timestamp <= now) /\ [][C26_Lookup /\ C26_Store]_vars

\* a facility of the known system got its minutes from an entry written
\* earlier, without a fetch
C26_Witness ==
    /\ cache.present
    /\ now > cache.timestamp
    /\ \E i \in 1..Len(tasks) :
         /\ tasks[i].pc = "done"
         /\ tasks[i].source = "known"
         /\ ~ tasks[i].fetched
         /\ tasks[i].used.data = cache.data

\* the calls of fetchWithCache of the running batch that stored an entry
Writers == {i \in 1..Len(tasks) : tasks[i].wrote}

\* every call that finds no valid entry issues a fetch of its own, whatever
\* the other calls of the batch are doing
C27_OwnFetch ==
    BatchStarts =>
        \A i \in 1..Len(tasks') :
            (IsKnownSystem(hospitals'[i].name) /\ ~ EntryValid) =>
                (tasks'[i].pc = "known" /\ tasks'[i].fetched /\ ~ tasks'[i].wrote)

\* a call whose fetch succeeds goes on with the data it parsed itself, and its
\* entry replaces whatever another call stored meanwhile
C27_OwnData ==
    \A i \in 1..Len(tasks) :
        (batch = "running" /\ hospitals' = hospitals
         /\ tasks[i].pc = "known" /\ tasks'[i].wrote) =>
            /\ tasks'[i].gotAt = now
            /\ cache' = [present |-> TRUE, data |-> tasks'[i].got, timestamp |-> tasks'[i].gotAt]
            /\ tasks'[i].pc = "done" =>
                   \/ tasks'[i].source = "known"
                      /\ tasks'[i].scraped = fuzzyMatch(hospitals[i].name, tasks'[i].got)
                      /\ tasks'[i].used.data = tasks'[i].got
                   \/ tasks'[i].source = "synthetic"
                      /\ fuzzyMatch(hospitals[i].name, tasks'[i].got) = JNull
            /\ tasks'[i].pc = "generic" =>
                   fuzzyMatch(hospitals[i].name, tasks'[i].got) = JNull
            /\ \A j \in 1..Len(tasks) : j # i => tasks'[j] = tasks[j]

\* the entry is the data and the time of one call, the one that stored last
C27_LastWriter ==
    Writers # {} =>
        \E i \in Writers :
            /\ cache = [present |-> TRUE, data |-> tasks[i].got, timestamp |-> tasks[i].gotAt]
            /\ \A j \in Writers : tasks[j].gotAt <= tasks[i].gotAt

\* C27: calls of fetchWithCache for the same absent or stale url that
\* interleave take no lock: each issues its own fetch and goes on with the
\* data it parsed itself, the call that completes last leaves its entry in
\* the cache, and the entry always holds the data and the time of one and the
\* same call.
C27_LastWriterWins ==
    [](C27_LastWriter) /\ [][C27_OwnFetch /\ C27_OwnData]_vars

\* two calls of one batch stored different data at different times, and the
\* entry is the later one's
C27_Witness ==
    \E i, j \in Writers :
        /\ tasks[i].got # tasks[j].got
        /\ tasks[i].gotAt < tasks[j].gotAt
        /\ tasks[j].gotAt - tasks[i].gotAt < CACHE_TTL_MS
        /\ cache = [present |-> TRUE, data |-> tasks[j].got, timestamp |-> tasks[j].gotAt]

\* the fetch of call i has failed: the call leaves fetchWithCache without
\* having stored anything
FetchFails(i) ==
    /\ batch = "running"
    /\ hospitals' = hospitals
    /\ tasks[i].pc = "known"
    /\ tasks'[i].pc # "known"
    /\ ~ tasks'[i].wrote

C28_Step ==
    \A i \in 1..Len(tasks) :
        FetchFails(i) =>
            /\ cache' = cache
            /\ ~ cache.present => cache' = NoCache
            /\ tasks'[i].scraped = JNull \/ tasks'[i].source = "generic"
            /\ tasks'[i].source # "known"

\* C28: a call of fetchWithCache whose fetch fails (network error, timeout or
\* a status that is not ok) leaves the cache as it was: no entry is created,
\* and a stale entry keeps its data and its timestamp.
C28_FailedFetchKeepsCache == [][C28_Step]_vars

\* a lookup whose only fetch, that of the known system, failed has ended, and
\* the stale entry is still there
C28_Witness ==
    /\ cache.present
    /\ now - cache.timestamp >= CACHE_TTL_MS
    /\ \E i \in 1..Len(tasks) :
         /\ IsKnownSystem(hospitals[i].name)
         /\ ~ Truthy(hospitals[i].website)
         /\ tasks[i].pc = "done"
         /\ tasks[i].fetched
         /\ ~ tasks[i].wrote
         /\ tasks[i].source = "synthetic"

\* lookup i is inside scrapeGenericSite and the fetch of its current path ends
ProbeEnds(i) ==
    /\ batch = "running"
    /\ hospitals' = hospitals
    /\ tasks[i].pc = "generic"
    /\ tasks'[i] # tasks[i]

\* the fetch of path k ends with minutes and the lookup stops, or without and
\* path k + 1 is fetched, or without at the last path and null is returned
C29_Step ==
    \A i \in 1..Len(tasks) :
        LET t == tasks[i]
            u == tasks'[i]
        IN ProbeEnds(i) =>
              /\ t.probes = t.path
              /\ \/ /\ u.pc = "done"
                    /\ u.source = "generic"
                    /\ u.probes = t.path
                    /\ u.used.html \in HtmlPages
                    /\ u.scraped = extractWaitFromHtml(u.used.html)
                    /\ u.scraped.t = "number"
                    /\ u.scraped.n >= 0 /\ u.scraped.n < 2 * 500
                 \/ /\ u.pc = "generic"
                    /\ t.path < WAIT_PATHS
                    /\ u.path = t.path + 1
                    /\ u.probes = u.path
                    /\ u.scraped = JNull
                 \/ /\ u.pc = "done"
                    /\ u.source = "synthetic"
                    /\ u.scraped = JNull
                    /\ t.path = WAIT_PATHS
                    /\ u.probes = WAIT_PATHS

\* the paths fetched so far are the first ones of the list; a lookup that has
\* ended fetches no more; a website that does not parse is never fetched
C29_Probes ==
    \A i \in 1..Len(tasks) :
        LET t == tasks[i]
            h == hospitals[i]
        IN /\ t.probes \in 0..WAIT_PATHS
           /\ t.pc = "generic" => (t.path \in 1..WAIT_PATHS /\ t.probes = t.path)
           /\ t.pc = "known" => t.probes = 0
           /\ ~ Probes(h) => t.probes = 0
           /\ (~ Probes(h) /\ ~ IsKnownSystem(h.name)) => (t.pc = "done" /\ ~ t.fetched)
           /\ (t.pc = "done" /\ t.source = "generic") => t.probes \in 1..WAIT_PATHS
           /\ (t.pc = "done" /\ t.source = "synthetic" /\ Probes(h)) =>
                  (t.probes = WAIT_PATHS \/ (t.probes = 0 /\ IsKnownSystem(h.name)))
           /\ (t.pc = "done" /\ t.source = "known") => t.probes = 0

\* C29: scrapeGenericSite fetches the four paths in list order and stops at
\* the first page that gives minutes m with 0 <= m < 500: after a hit no
\* further path is fetched, a path whose fetch fails, is not ok or gives no
\* minutes is followed by the next one, and null is returned only after the
\* fourth path, or at once, without any fetch, for a website that does not
\* parse as a url.
C29_GenericProbing == [](C29_Probes) /\ [][C29_Step]_vars

\* a lookup got its minutes from the third path of its site after two paths
\* that gave none
C29_Witness ==
    \E i \in 1..Len(tasks) :
        /\ tasks[i].pc = "done"
        /\ tasks[i].source = "generic"
        /\ tasks[i].probes = 3
        /\ tasks[i].scraped = JNum(2 * 25)

\* the fields that getWaitTimes adds
AddedFields == {"waitTime", "waitTimeEstimated"}

\* record out is facility h with nothing but the two fields added
SameFacility(h, out) ==
    /\ DOMAIN out = DOMAIN h \cup AddedFields
    /\ \A f \in DOMAIN h : out[f] = h[f]

C30_Records ==
    /\ \A i \in 1..Len(values) : values[i].filled => SameFacility(hospitals[i], values[i].value)
    /\ batch = "returned" =>
           /\ Len(results) = Len(hospitals)
           /\ \A i \in 1..Len(results) : SameFacility(hospitals[i], results[i])
    /\ hospitals \in Batches \cup {<<>>}
    /\ \A i \in 1..Len(hospitals) : DOMAIN hospitals[i] \cap AddedFields = {}

\* the facilities handed to getWaitTimes stay as they were while it runs
C30_InputKept == batch = "running" => hospitals' = hospitals

\* C30: every record that getWaitTimes returns is its input facility with
\* only waitTime and waitTimeEstimated added: every other field has the value
\* it has in the input, and the input facilities are not changed.
C30_OnlyTwoFields == [](C30_Records) /\ [][C30_InputKept]_vars

\* a returned batch with a facility without website next to one with a
\* website, one of them with scraped minutes
C30_Witness ==
    /\ batch = "returned"
    /\ \E i, j \in 1..Len(results) :
         /\ results[i].website = JUndef
         /\ results[j].website.t = "string"
         /\ ~ results[j].waitTimeEstimated
         /\ results[i].placeId # results[j].placeId

\* what callGeminiJson throws for the error of getModel
ConfigFailure == normalizeGeminiError(ConfigError)

\* an iteration of the loop of callGeminiJson runs without GEMINI_API_KEY
AttemptsWithoutKey ==
    /\ ~ env.apiKey
    /\ pc \in {"primary", "translate", "transcribe", "detect"}
    /\ ~ LoopEnded
    /\ idx' # idx \/ looping' # looping \/ lastError' # lastError

C31_Step ==
    AttemptsWithoutKey =>
        /\ idx = 1
        /\ calls' = calls
        /\ calls = <<>>
        /\ lastError' = ConfigError
        /\ ~ looping'
        /\ idx' = idx
        /\ result' = result

C31_State ==
    ~ env.apiKey =>
        /\ calls = <<>>
        /\ idx = 1
        /\ pc # "translate"
        /\ outcome.kind # "returned"
        /\ (pc = "primary" /\ LoopEnded) =>
               /\ lastError = ConfigError
               /\ ChainResult = Throw(ConfigFailure)
        /\ (outcome.kind = "thrown" /\ InputError(input) = NoError) =>
               /\ outcome.err.message = STR_CALL_FAILED \o ConfigError.message
               /\ outcome.err.statusCode = 503

\* C31: without GEMINI_API_KEY callGeminiJson fails at its first iteration:
\* getModel throws before generateContent is called, the error is not of the
\* model-not-found class, so no further candidate is tried, and the call
\* throws the error of getModel, normalised, whose message names the missing
\* GEMINI_API_KEY.
C31_MissingKeyFailsFast == [](C31_State) /\ [][C31_Step]_vars

\* a diagnosis request has failed for the missing key after one iteration and
\* no call
C31_Witness ==
    /\ ~ env.apiKey
    /\ pc = "done"
    /\ outcome.kind = "thrown"
    /\ lastError = ConfigError
    /\ calls = <<>>
    /\ idx = 1
    /\ Len(cands) > 1
    /\ Includes(outcome.err.message, ConfigError.message)

\* failures of the backend that are transient: it is overloaded, or the
\* request never got an answer
TransientErrors == {E_Overloaded, E_Network}

\* C32: the error that callGeminiJson throws for a missing credential carries
\* a public message or a status class that differs from those of the error it
\* throws for a transient failure of the backend.
C32_ConfigDistinguishable ==
    (pc \in {"primary", "translate", "transcribe", "detect"} /\ LoopEnded
     /\ lastError = ConfigError) =>
        \A e \in TransientErrors :
            \/ ChainResult.err.publicMessage # normalizeGeminiError(e).publicMessage
            \/ ChainResult.err.statusCode # normalizeGeminiError(e).statusCode

\* generateDiagnosis has thrown the error that blames the image
BlamesImage ==
    /\ outcome.kind = "thrown"
    /\ outcome.err.statusCode = 400
    /\ outcome.err.message = MSG_IMAGE_FAILED

\* the primary call of a request with an image has failed
PrimaryFailed ==
    /\ outcome.kind = "thrown"
    /\ InputError(input) = NoError
    /\ input.image.t # "null"
    /\ translation = "none"
    /\ diag = NoDiagnosis

\* C33: generateDiagnosis reports an upstream failure as 'image could not be
\* processed' with status 400 only when an image was attached and the backend
\* rejected that image; every other upstream failure of a request with an
\* image is reported with status 503.
C33_ImageBlamedOnlyWhenRejected ==
    /\ BlamesImage => (input.image.t # "null" /\ isInvalidImageError(lastError))
    /\ (PrimaryFailed /\ ~ isInvalidImageError(lastError)) => outcome.err.statusCode = 503

\* the candidates of every call issued so far are those of the list in use,
\* in list order
CallsFollow(list) ==
    /\ Len(calls) <= Len(list)
    /\ \A k \in 1..Len(calls) : calls[k].candidate = list[k]

\* C34: the primary call of generateDiagnosis runs over the image-capable
\* candidates exactly when an image is attached and over the text-only
\* candidates otherwise; the translation call runs over the text-only
\* candidates, with or without an image.
C34_CandidateLists ==
    /\ (pc = "primary" /\ input.image.t # "null") =>
           (cands = getImageCandidateModels(env) /\ CallsFollow(getImageCandidateModels(env)))
    /\ (pc = "primary" /\ input.image.t = "null") =>
           (cands = getCandidateModels(env) /\ CallsFollow(getCandidateModels(env)))
    /\ pc = "translate" =>
           (cands = getCandidateModels(env) /\ CallsFollow(getCandidateModels(env)))
    /\ (pc = "primary" /\ env = DefaultEnv) =>
           cands = IF input.image.t # "null"
                     THEN <<M_25_flash, M_25_flash_image, M_20_flash>>
                     ELSE <<M_25_flash, M_20_flash, M_flash_latest>>

\* the translation of a diagnosis with an image has reached the second
\* text-only candidate, which is not the second image-capable one
C34_Witness ==
    /\ pc = "translate"
    /\ input.image.t # "null"
    /\ Len(calls) = 2
    /\ calls[2].candidate = M_20_flash
    /\ getImageCandidateModels(env)[2] = M_25_flash_image

\* the languageCode member of a primary payload, lower-cased and trimmed
ReportedCode(obj) ==
    IF obj.t = "object" /\ Field(obj.f, K_languageCode).t = "string"
      THEN ToLowerCase(Trim(Field(obj.f, K_languageCode).s))
      ELSE <<>>

\* the requested language, else the one the model reported, else the one
\* detected from the script of the symptoms
ResolvedTarget(inp, obj) ==
    IF requestedLanguageCode(inp) # <<>> THEN requestedLanguageCode(inp)
    ELSE IF IsSupported(ReportedCode(obj)) THEN ReportedCode(obj)
    ELSE fallbackLanguageCode(inp)

\* the primary call has ended: the translation call follows exactly for a
\* payload that validated and a target other than 'en'
C35_AfterPrimary ==
    (pc = "primary" /\ pc' # "primary") =>
        LET r == ChainResult
            v == validateAndNormalize(r.value, fallbackLanguageCode(input))
            valid == r.ok /\ v.ok
        IN /\ pc' = "translate" <=> (valid /\ ResolvedTarget(input, r.value) # L_en)
           /\ pc' = "translate" =>
                  /\ diag' = [v.value EXCEPT !.languageCode = ResolvedTarget(input, r.value)]
                  /\ calls' = <<>>
                  /\ outcome' = NoOutcome
           /\ (valid /\ ResolvedTarget(input, r.value) = L_en) =>
                  (/\ pc' = "done"
                   /\ outcome' = Returned([v.value EXCEPT !.languageCode = L_en])
                   /\ translation' = "skipped")
           /\ ~ valid => (pc' = "done" /\ outcome'.kind = "thrown")

\* the translation call has ended: a translation with both fields replaces
\* condition and reasoning and nothing else
C35_AfterTranslation ==
    (pc = "translate" /\ pc' # "translate") =>
        /\ pc' = "done"
        /\ outcome'.kind = "returned" =>
               /\ outcome'.value.severity = diag.severity
               /\ outcome'.value.languageCode = diag.languageCode
               /\ DOMAIN outcome'.value = DOMAIN diag
               /\ translation' = "applied" =>
                      /\ outcome'.value.condition =
                             TrimmedString(Field(ChainResult.value.f, K_condition))
                      /\ outcome'.value.reasoning =
                             TrimmedString(Field(ChainResult.value.f, K_reasoning))
                      /\ outcome'.value.condition # <<>>
                      /\ outcome'.value.reasoning # <<>>
               /\ translation' # "applied" => outcome'.value = diag

\* the translation call is only ever entered from the primary call
C35_Order == (pc' = "translate" /\ pc # "translate") => (pc = "primary" /\ LoopEnded)

\* C35: generateDiagnosis issues the translation call exactly when the
\* primary payload validated and the target language (the requested one, else
\* the one the model reported, else the detected one) is not 'en'; the
\* translation call comes after the primary call, and a translation that
\* succeeds replaces condition and reasoning only: severity stays and
\* languageCode is the target.
C35_TranslationStep ==
    [](pc = "translate" => (diag.languageCode # L_en /\ diag.languageCode # <<>>))
        /\ [][C35_AfterPrimary /\ C35_AfterTranslation /\ C35_Order]_vars

\* a translation has been applied to a diagnosis the model reported in a
\* language other than the target
C35_Witness ==
    /\ pc = "done"
    /\ translation = "applied"
    /\ outcome.kind = "returned"
    /\ outcome.value.condition # diag.condition
    /\ outcome.value.severity = diag.severity
    /\ outcome.value.languageCode # L_en

(***************************************************************************)
(* C36: under any interleaving of invocations of callGeminiJson on the one *)
(* module-level handle, every generation attempt waiting for its answer    *)
(* was issued on a handle built for the candidate of its loop iteration,   *)
(* and whenever the cached handle is not null modelName names the          *)
(* candidate the handle was built for.                                     *)
(***************************************************************************)
C36_AttemptOnOwnCandidate ==
    \A r \in 1..MaxRuns :
        runs[r].pc = "awaiting" =>
            /\ runs[r].idx \in 1..Len(runs[r].cands)
            /\ runs[r].candidate = runs[r].cands[runs[r].idx]
            /\ runs[r].handle = runs[r].candidate

C36_SharedHandle ==
    /\ C36_AttemptOnOwnCandidate
    /\ (model # Null => modelName = model)
    /\ (model = Null <=> modelName = Null)

\* two attempts of different candidates wait at once, and the cached handle
\* has moved on from the one the first attempt was issued on
C36_Witness ==
    \E r \in 1..MaxRuns, q \in 1..MaxRuns :
        /\ runs[r].pc = "awaiting"
        /\ runs[q].pc = "awaiting"
        /\ runs[r].cands # runs[q].cands
        /\ runs[r].candidate # runs[q].candidate
        /\ model = runs[q].handle
        /\ model # runs[r].handle

(***************************************************************************)
(* C37: every image attachment that generateDiagnosis sends with the       *)
(* primary call carries a MIME type that passes the image/* test applied   *)
(* to the declared type, also when the type was taken from a data-URL.     *)
(***************************************************************************)
C37_SentMimeIsImage ==
    (pc = "primary" /\ calls # <<>> /\ input.image.t # "null") =>
        /\ payload = normalizeImage(input.image)
        /\ IsImageMime(payload.mimeType)

(***************************************************************************)
(* C38: once the recorder has stopped with at least one captured chunk,    *)
(* the chunk buffer is emptied only after a final-pass transcription call  *)
(* covering the captured chunks has been issued, whatever interim          *)
(* transcription is in flight when the stop event fires.                   *)
(***************************************************************************)
C38_Step ==
    (audioChunks > 0 /\ audioChunks' = 0 /\ recorder' = "inactive") =>
        \E k \in 1..Len(request) :
            /\ request[k].finalPass
            /\ request[k].covers = audioChunks

C38_FinalPassBeforeClear == [][C38_Step]_vars

(***************************************************************************)
(* C39: at most one transcription call is past the guard at any time; the  *)
(* guard is set exactly while such a call is encoding or waiting for its   *)
(* answer, so it is set before the request is sent, and every way a call   *)
(* ends leaves the guard cleared.                                          *)
(***************************************************************************)
C39_State ==
    /\ Len(request) <= 1
    /\ isTranscribing <=> request # <<>>
    /\ \A k \in 1..Len(request) : request[k].phase = "sent" => isTranscribing

C39_Step ==
    /\ Len(request') < Len(request) => ~ isTranscribing' /\ request' = <<>>
    /\ Len(request') > Len(request) =>
           /\ ~ isTranscribing
           /\ isTranscribing'
           /\ request'[Len(request')].phase = "encoding"

C39_OneInFlight == [](C39_State) /\ [][C39_Step]_vars

\* a request is out, and a later data event that passed the throttle was
\* turned away by the guard
C39_Witness ==
    /\ request # <<>>
    /\ request[1].phase = "sent"
    /\ isTranscribing
    /\ lastTranscribeAt > request[1].at
    /\ audioChunks > request[1].covers

=============================================================================
